---- MODULE Spec2Model ----
(***************************************************************************)
(* Model of the citation-graph engine of ProyectoBibliometria:             *)
(*   - parse_unified_file and build_citation_graph_optimized               *)
(*     (src/Scripts grafo/construir_grafo_citaciones.py),                  *)
(*   - generar_clave_bibtex (src/utils/bibtex_utils.py),                   *)
(*   - add_cost_attribute, dijkstra_shortest_path, floyd_warshall_all_pairs*)
(*     and all_pairs_dijkstra (src/Scripts grafo/caminos_minimos.py).      *)
(*                                                                         *)
(* Conventions.                                                            *)
(*   Python strings are sequences of one-character strings, so that        *)
(*   substring tests, strip() and the regular expressions are computed.    *)
(*   Floating-point numbers are fixed-point integers:                      *)
(*     title cosine, author overlap, edge weight : units of 1/10000        *)
(*     title_weight, author_weight, thresholds   : units of 1/100          *)
(*     fused score before round(.,4)             : units of 1/1000000      *)
(*     edge cost and path distance               : [hi, lo], hi whole      *)
(*                                                 units, lo millionths    *)
(*   Sums are exact in this arithmetic; IEEE rounding of sums is not       *)
(*   modelled.                                                             *)
(***************************************************************************)
EXTENDS Integers, Sequences, FiniteSets, TLC

VARIABLES
    pc,         \* position of the run that is modelled
    entries,    \* build: the ordered list of records passed in
    title_cos,  \* build: cosine of each pair of different tokenised titles
    params,     \* build: title_weight, author_weight, title_threshold, sim_threshold
    G,          \* build: the graph build_citation_graph_optimized returns
    content,    \* parse: the text of the unified file
    parsed,     \* parse: the list parse_unified_file returns
    graph,      \* paths: the graph held by caminos_minimos (nodes, weights, costs)
    query,      \* paths: the arguments of the operation that ran
    out         \* paths: what the operation returned

vars == <<pc, entries, title_cos, params, G, content, parsed, graph, query, out>>

Idle == <<>>

(***************************************************************************)
(* Strings                                                                 *)
(***************************************************************************)
IsSpace(c) == c \in {" ", "\n", "\t"}


UpperCase == <<"A", "B", "C", "D", "E", "F", "G", "H", "I", "J", "K", "L", "M", "N",
               "O", "P", "Q", "R", "S", "T", "U", "V", "W", "X", "Y", "Z">>
LowerCase == <<"a", "b", "c", "d", "e", "f", "g", "h", "i", "j", "k", "l", "m", "n",
               "o", "p", "q", "r", "s", "t", "u", "v", "w", "x", "y", "z">>

Letters == { UpperCase[k] : k \in 1..26 } \cup { LowerCase[k] : k \in 1..26 }

Digits == {"0","1","2","3","4","5","6","7","8","9"}

\* \w of the re module
IsWordChar(c) == c \in Letters \cup Digits \cup {"_"}

\* str.lower() on one character
LowerOf == [c \in { UpperCase[k] : k \in 1..26 } |->
               LowerCase[CHOOSE k \in 1..26 : UpperCase[k] = c]]

LowerChar(c) == IF c \in DOMAIN LowerOf THEN LowerOf[c] ELSE c

Lower(s) == [k \in 1..Len(s) |-> LowerChar(s[k])]

RECURSIVE LStrip(_)
LStrip(s) == IF s = <<>> THEN s
             ELSE IF IsSpace(Head(s)) THEN LStrip(Tail(s)) ELSE s

RECURSIVE RStrip(_)
RStrip(s) == IF s = <<>> THEN s
             ELSE IF IsSpace(s[Len(s)]) THEN RStrip(SubSeq(s, 1, Len(s) - 1)) ELSE s

\* str.strip()
Strip(s) == RStrip(LStrip(s))

\* re.sub(r'\s+', ' ', s)
RECURSIVE CollapseSpaces(_)
CollapseSpaces(s) ==
    IF s = <<>> THEN s
    ELSE IF IsSpace(Head(s)) THEN <<" ">> \o CollapseSpaces(LStrip(s))
    ELSE <<Head(s)>> \o CollapseSpaces(Tail(s))

\* p in s
IsSubstr(p, s) == \E k \in 0..(Len(s) - Len(p)) : SubSeq(s, k + 1, k + Len(p)) = p

\* s.replace(p, '') for a non-empty p
RECURSIVE RemoveAll(_, _)
RemoveAll(s, p) ==
    IF Len(s) < Len(p) THEN s
    ELSE IF SubSeq(s, 1, Len(p)) = p THEN RemoveAll(SubSeq(s, Len(p) + 1, Len(s)), p)
    ELSE <<Head(s)>> \o RemoveAll(Tail(s), p)

\* s.split()[-1] for a string that holds a non-space character
LastToken(s) ==
    LET r  == RStrip(s)
        sp == { k \in 1..Len(r) : IsSpace(r[k]) }
    IN  IF sp = {} THEN r
        ELSE SubSeq(r, (CHOOSE k \in sp : \A x \in sp : x <= k) + 1, Len(r))

normalize_text(s) == IF s = <<>> THEN <<>> ELSE Lower(CollapseSpaces(Strip(s)))

\* dict assignment m[k] = v
Put(m, k, v) == [x \in (DOMAIN m) \cup {k} |-> IF x = k THEN v ELSE m[x]]

Min2(a, b) == IF a <= b THEN a ELSE b
Max2(a, b) == IF a >= b THEN a ELSE b

(***************************************************************************)
(* build_citation_graph_optimized                                          *)
(***************************************************************************)
K1 == <<"k", "1">>
K2 == <<"k", "2">>
Title1 == <<"t", "1">>
Title2 == <<"t", "2">>
NoText == <<>>
Doi1 == <<"1", "/", "X">>
AuthorsLiWu == << <<"A", " ", "L", "i">>, <<"B", " ", "W", "u">> >>
AuthorsLiXu == << <<"C", " ", "L", "I">>, <<"D", " ", "X", "u">> >>

Rec(k, t, a, d, r, raw) ==
    [bibkey |-> k, title |-> t, authors |-> a, year |-> NoText, doi |-> d,
     url |-> NoText, references_raw |-> r, raw_entry |-> raw]

\* The records the lists passed to the builder are made of: plain records,
\* records sharing a key, a title or authors, records that cite another by
\* key or by DOI in references_raw or in raw_entry, and a record without title.
RecordPool ==
    { Rec(K1, Title1, AuthorsLiWu, NoText, NoText, K1),
      Rec(K2, Title2, AuthorsLiXu, Doi1, NoText, K2 \o <<" ">> \o Doi1),
      Rec(K1, Title2, <<>>, NoText, <<"s", " ">> \o K2, K1),
      Rec(K2, Title1, AuthorsLiWu, NoText, NoText, K2),
      Rec(K1, Title1, AuthorsLiXu, NoText, NoText, K1 \o <<" ">> \o K2),
      Rec(K1, NoText, <<>>, NoText, K2, K1),
      Rec(K1, Title2, <<>>, NoText, <<"1", "/", "x">>, K1),
      Rec(K1, Title1, <<>>, NoText, NoText, <<"1", "/", "x">>) }

MaxEntries == 3

EntryLists == UNION { [1..n -> RecordPool] : n \in 0..MaxEntries }

\* TfidfVectorizer's token_pattern \b\w\w+\b: a title contributes to the
\* vocabulary when it holds two word characters in a row
HasToken(t) == \E k \in 1..(Len(t) - 1) : IsWordChar(t[k]) /\ IsWordChar(t[k + 1])

PoolTitles == { r.title : r \in RecordPool }

TitlePairs == { {t, u} : t \in { x \in PoolTitles : HasToken(x) },
                         u \in { x \in PoolTitles : HasToken(x) } }
              \ { {t} : t \in PoolTitles }

\* cosine values (1/10000) the TF-IDF kernel may give two different titles
CosValues == {0, 5000, 8578, 10000}

Params(tw, aw, tt, st) ==
    [title_weight |-> tw, author_weight |-> aw, title_threshold |-> tt,
     sim_threshold |-> st]

\* the defaults of line 121-122 (0.7, 0.3, 0.50, 0.60) and values a caller may
\* pass instead: a weight above 1, a negative weight, thresholds of 0, below 0
\* and above 1
ParamSets ==
    { Params(70, 30, 50, 60), Params(200, 30, 50, 60), Params(70, -30, 0, -50),
      Params(70, 30, 50, 110), Params(70, 30, 0, 60), Params(70, 30, 0, -50) }

\* cos_sim[i][j] = linear_kernel(tfidf, tfidf)[i][j] of L2-normalised rows:
\* 0 when a title has no token, 1 for equal titles, symmetric otherwise
CosSim(es, tc, i, j) ==
    LET ti == es[i].title
        tj == es[j].title
    IN  IF ~HasToken(ti) \/ ~HasToken(tj) THEN 0
        ELSE IF ti = tj THEN 10000
        ELSE tc[{ti, tj}]

\* fit_transform raises ValueError (empty vocabulary) when no title has a token
EmptyVocabulary(es) == \A k \in 1..Len(es) : ~HasToken(es[k].title)

AuthorLastnames(e) ==
    { LastToken(n) : n \in { normalize_text(e.authors[k]) : k \in 1..Len(e.authors) } \ {<<>>} }

DoiKey(d) == Strip(RemoveAll(normalize_text(d), <<"d", "o", "i", ":">>))

RECURSIVE DoiMap(_, _)
DoiMap(es, k) ==
    IF k = 0 THEN <<>>
    ELSE LET m  == DoiMap(es, k - 1)
             e  == es[k]
             m1 == IF e.doi # <<>> THEN Put(m, DoiKey(e.doi), e.bibkey) ELSE m
         IN  IF e.url # <<>> THEN Put(m1, Strip(normalize_text(e.url)), e.bibkey) ELSE m1

ExplicitNoReferences(a, b, doi_map) ==
    b.doi # <<>> /\ IsSubstr(normalize_text(b.doi), normalize_text(a.raw_entry))

\* explicit evidence looked for in the key of b alone
ExplicitKeyOnly(a, b, doi_map) ==
    a.references_raw # <<>> /\ IsSubstr(b.bibkey, a.references_raw)

Explicit(a, b, doi_map) ==
    LET byRefs ==
            IF a.references_raw # <<>>
            THEN IF IsSubstr(b.bibkey, a.references_raw) THEN TRUE
                 ELSE \E dk \in DOMAIN doi_map :
                         IsSubstr(dk, a.references_raw) /\ doi_map[dk] = b.bibkey
            ELSE FALSE
    IN  \/ byRefs
        \/ (~byRefs /\ b.doi # <<>>
              /\ IsSubstr(normalize_text(b.doi), normalize_text(a.raw_entry)))

AuthorOvNoMin(Aset, Bset) ==
    IF Cardinality(Aset) = 0 \/ Cardinality(Bset) = 0 THEN 0
    ELSE Cardinality(Aset \cap Bset) * 10000

\* author_ov, in 1/10000
AuthorOv(Aset, Bset) ==
    IF Cardinality(Aset) = 0 \/ Cardinality(Bset) = 0 THEN 0
    ELSE (Cardinality(Aset \cap Bset) * 10000)
            \div Max2(1, Min2(Cardinality(Aset), Cardinality(Bset)))

\* title_weight * title_sim + author_weight * author_ov, in 1/1000000
FusedScore(es, tc, p, i, j) ==
    p.title_weight * CosSim(es, tc, i, j)
      + p.author_weight * AuthorOv(AuthorLastnames(es[i]), AuthorLastnames(es[j]))

Score(es, tc, p, dm, i, j) ==
    IF Explicit(es[i], es[j], dm) THEN 1000000
    ELSE FusedScore(es, tc, p, i, j)

\* millionths cut to ten-thousandths
Truncate4(s6) == s6 \div 100

\* round(float(score), 4): millionths to ten-thousandths, half to even
Round4(s6) ==
    LET q == s6 \div 100
        r == s6 % 100
    IN  IF r > 50 THEN q + 1
        ELSE IF r < 50 THEN q
        ELSE IF q % 2 = 0 THEN q ELSE q + 1

\* j in np.where(sims_row >= title_threshold)[0]
Candidate(es, tc, p, i, j) == CosSim(es, tc, i, j) >= p.title_threshold * 100

\* the loops of lines 170-206 over k = (i-1)*n + (j-1), G.add_edge overwriting:
\* the weight of every edge and the edges in the order they were first added
RECURSIVE EdgeLoop(_, _, _, _, _)
EdgeLoop(es, tc, p, dm, k) ==
    IF k = 0 THEN [weight |-> <<>>, order |-> <<>>]
    ELSE LET n    == Len(es)
             E    == EdgeLoop(es, tc, p, dm, k - 1)
             i    == ((k - 1) \div n) + 1
             j    == ((k - 1) % n) + 1
             s    == Score(es, tc, p, dm, i, j)
             e    == <<es[i].bibkey, es[j].bibkey>>
         IN  IF i # j /\ Candidate(es, tc, p, i, j) /\ s >= p.sim_threshold * 10000
             THEN [weight |-> Put(E.weight, e, Round4(s)),
                   order  |-> IF e \in DOMAIN E.weight THEN E.order ELSE Append(E.order, e)]
             ELSE E

\* G.add_node in list order: node ids in first-insertion order
RECURSIVE NodeOrder(_, _)
NodeOrder(es, k) ==
    IF k = 0 THEN <<>>
    ELSE LET ns == NodeOrder(es, k - 1)
         IN  IF \E x \in 1..Len(ns) : ns[x] = es[k].bibkey THEN ns
             ELSE Append(ns, es[k].bibkey)

RECURSIVE NodeAttrs(_, _)
NodeAttrs(es, k) ==
    IF k = 0 THEN <<>>
    ELSE Put(NodeAttrs(es, k - 1), es[k].bibkey,
             [title |-> es[k].title, authors |-> es[k].authors, year |-> es[k].year,
              doi |-> es[k].doi, url |-> es[k].url])

build_citation_graph_optimized(es, tc, p) ==
    IF EmptyVocabulary(es)
    THEN [status |-> "ValueError", nodes |-> <<>>, attrs |-> <<>>, edges |-> <<>>,
          order |-> <<>>]
    ELSE LET E == EdgeLoop(es, tc, p, DoiMap(es, Len(es)), Len(es) * Len(es))
         IN  [status |-> "ok",
              nodes  |-> NodeOrder(es, Len(es)),
              attrs  |-> NodeAttrs(es, Len(es)),
              edges  |-> E.weight,
              order  |-> E.order]

BuildInit ==
    /\ pc = "entries"
    /\ entries \in EntryLists
    /\ title_cos \in [TitlePairs -> CosValues]
    /\ params \in ParamSets
    /\ G = Idle
    /\ content = Idle /\ parsed = Idle
    /\ graph = Idle /\ query = Idle /\ out = Idle

Build ==
    /\ pc = "entries"
    /\ G' = build_citation_graph_optimized(entries, title_cos, params)
    /\ pc' = "built"
    /\ UNCHANGED <<entries, title_cos, params, content, parsed, graph, query, out>>

BuildNext == Build

BuildSpec == BuildInit /\ [][BuildNext]_vars

Built == pc = "built" /\ G.status = "ok"

Pairs == { <<i, j>> \in (1..Len(entries)) \X (1..Len(entries)) : i # j }

HasEdge(i, j) == <<entries[i].bibkey, entries[j].bibkey>> \in DOMAIN G.edges

EdgeWeight(i, j) == G.edges[<<entries[i].bibkey, entries[j].bibkey>>]

\* A's references_raw contains B's key
CitesByKey(i, j) == IsSubstr(entries[j].bibkey, entries[i].references_raw)

\* a pair the loops reach after (i, j) that writes the same edge
LaterWriter(i, j) ==
    \E q \in Pairs :
        /\ (q[1] > i \/ (q[1] = i /\ q[2] > j))
        /\ entries[q[1]].bibkey = entries[i].bibkey
        /\ entries[q[2]].bibkey = entries[j].bibkey

\* C1: the returned graph has no edge whose source node id equals its target
\* node id, whatever keys the records carry.
C1_NoSelfLoops == Built => \A e \in DOMAIN G.edges : e[1] # e[2]

\* C2 (as claimed): for distinct records A, B with B's key inside A's
\* references_raw the returned graph has the edge A->B with weight 1.0,
\* whatever the title cosine is.
C2_ExplicitEdgeAnyCosine ==
    Built => \A q \in Pairs :
                CitesByKey(q[1], q[2])
                    => HasEdge(q[1], q[2]) /\ EdgeWeight(q[1], q[2]) = 10000

\* C2 (amended): when in addition the title cosine of A and B is at least
\* title_threshold and sim_threshold is at most 1.0, the edge A->B is in the
\* returned graph, and its weight is exactly 1.0 unless a later pair of
\* records carrying the same two keys rewrote it.
C2_ExplicitEdgeAmongCandidates ==
    Built => \A q \in Pairs :
                (/\ CitesByKey(q[1], q[2])
                 /\ Candidate(entries, title_cos, params, q[1], q[2])
                 /\ params.sim_threshold <= 100)
                    => /\ HasEdge(q[1], q[2])
                       /\ (~LaterWriter(q[1], q[2]) => EdgeWeight(q[1], q[2]) = 10000)

\* C2 witness: a candidate pair cited by key whose fused score is below
\* sim_threshold and whose edge has weight 1.0.
C2_Witness ==
    /\ Built
    /\ \E q \in Pairs :
          /\ CitesByKey(q[1], q[2])
          /\ Candidate(entries, title_cos, params, q[1], q[2])
          /\ params.sim_threshold <= 100
          /\ FusedScore(entries, title_cos, params, q[1], q[2])
                < params.sim_threshold * 10000
          /\ ~LaterWriter(q[1], q[2])
          /\ HasEdge(q[1], q[2]) /\ EdgeWeight(q[1], q[2]) = 10000

\* C3 (as claimed): every edge weight is in [0,1] for every title_weight,
\* author_weight, title_threshold and sim_threshold.
C3_WeightsInUnitInterval ==
    Built => \A e \in DOMAIN G.edges : G.edges[e] >= 0 /\ G.edges[e] <= 10000

ConvexWeights ==
    /\ params.title_weight >= 0
    /\ params.author_weight >= 0
    /\ params.title_weight + params.author_weight <= 100

\* C3 (amended): every edge weight is in [0,1] when title_weight and
\* author_weight are not negative and sum to at most 1.
C3_WeightsInUnitIntervalConvex ==
    (Built /\ ConvexWeights)
        => \A e \in DOMAIN G.edges : G.edges[e] >= 0 /\ G.edges[e] <= 10000

\* C3 witness: under such weights, an edge scored from title and authors
\* (weight strictly between 0 and 1) next to one of weight 1.0.
C3_Witness ==
    /\ Built /\ ConvexWeights
    /\ \E e \in DOMAIN G.edges : G.edges[e] > 0 /\ G.edges[e] < 10000
    /\ \E e \in DOMAIN G.edges : G.edges[e] = 10000

(***************************************************************************)
(* generar_clave_bibtex and crear_entrada_bibtex: the writer of the blocks *)
(***************************************************************************)
FirstOf(S) == CHOOSE x \in S : \A y \in S : x <= y

\* index of the first ch at or after q, 0 when there is none
Find(s, q, ch) ==
    LET S == { k \in q..Len(s) : s[k] = ch }
    IN  IF S = {} THEN 0 ELSE FirstOf(S)

\* first index at or after q (q <= Len(s)+1) that holds no space
RECURSIVE SkipSpaces(_, _)
SkipSpaces(s, q) ==
    IF q > Len(s) THEN q
    ELSE IF IsSpace(s[q]) THEN SkipSpaces(s, q + 1) ELSE q

\* first index at or after q (q <= Len(s)+1) that holds no word character
RECURSIVE WordRunEnd(_, _)
WordRunEnd(s, q) ==
    IF q > Len(s) THEN q
    ELSE IF IsWordChar(s[q]) THEN WordRunEnd(s, q + 1) ELSE q

\* s.split(ch)[0]
Before(s, ch) == LET k == Find(s, 1, ch) IN IF k = 0 THEN s ELSE SubSeq(s, 1, k - 1)

IsLetter(c) == c \in Letters

\* re.search(r'20\d{2}|19\d{2}', s) matches at k
YearAt(s, k) ==
    /\ k + 3 <= Len(s)
    /\ (s[k] = "2" /\ s[k + 1] = "0") \/ (s[k] = "1" /\ s[k + 1] = "9")
    /\ s[k + 2] \in Digits /\ s[k + 3] \in Digits

YearSearch(s) ==
    LET S == { k \in 1..Len(s) : YearAt(s, k) }
    IN  IF S = {} THEN <<"2", "0", "2", "4">> ELSE SubSeq(s, FirstOf(S), FirstOf(S) + 3)

AutoresNoDisponibles == <<"A", "u", "t", "o", "r", "e", "s", " ", "n", "o", " ", "d", "i", "s", "p", "o", "n", "i", "b", "l", "e", "s">>
AnioNoDisponible == <<"A", "ñ", "o", " ", "n", "o", " ", "d", "i", "s", "p", "o", "n", "i", "b", "l", "e">>
TituloNoDisponible == <<"T", "í", "t", "u", "l", "o", " ", "n", "o", " ", "d", "i", "s", "p", "o", "n", "i", "b", "l", "e">>
DoiNoDisponible == <<"D", "O", "I", " ", "n", "o", " ", "d", "i", "s", "p", "o", "n", "i", "b", "l", "e">>
Desconocido == <<"D", "e", "s", "c", "o", "n", "o", "c", "i", "d", "o">>

generar_clave_bibtex(autor, anio) ==
    LET primer ==
            IF autor # <<>> /\ Strip(autor) # <<>> /\ autor # AutoresNoDisponibles
            THEN LET first == Strip(Before(Before(autor, ","), ";"))
                     last  == IF first # <<>> THEN LastToken(first) ELSE Desconocido
                 IN  SelectSeq(last, IsLetter)
            ELSE Desconocido
        anio_limpio ==
            IF anio # <<>> /\ anio # AnioNoDisponible THEN YearSearch(anio)
            ELSE <<"2", "0", "2", "4">>
    IN  primer \o anio_limpio

\* s.replace("{", "").replace("}", "")
IsNoBrace(c) == c \notin {"{", "}"}
NoBraces(s) == SelectSeq(s, IsNoBrace)

\* s.rstrip(",\n")
RECURSIVE RStripCommaNewline(_)
RStripCommaNewline(s) ==
    IF s = <<>> THEN s
    ELSE IF s[Len(s)] \in {",", "\n"} THEN RStripCommaNewline(SubSeq(s, 1, Len(s) - 1))
    ELSE s

DoiOrgPrefix == <<"h", "t", "t", "p", "s", ":", "/", "/", "d", "o", "i", ".", "o", "r", "g", "/">>

StartsWith(s, p) == Len(s) >= Len(p) /\ SubSeq(s, 1, Len(p)) = p

\* "  name = {value},\n"
FieldLine(name, value) == <<" ", " ">> \o name \o <<" ", "=", " ", "{">> \o value \o <<"}", ",", "\n">>

\* An entrada is a record of the fields Tipo, Titulo, Autores, Anio, DOI; <<>>
\* stands for a missing field (entrada.get(..) falsy).  The entradas of the
\* model carry no Revista, URL, Resumen or CitaBib, so lines 69-73 and 81-93
\* add nothing.
crear_entrada_bibtex(entrada) ==
    LET clave_bib == generar_clave_bibtex(entrada.Autores, entrada.Anio)
        head == <<"@">> \o entrada.Tipo \o <<"{">> \o clave_bib \o <<",", "\n">>
        t == IF entrada.Titulo # <<>> /\ entrada.Titulo # TituloNoDisponible
             THEN FieldLine(<<"t", "i", "t", "l", "e">>, NoBraces(entrada.Titulo)) ELSE <<>>
        a == IF entrada.Autores # <<>> /\ entrada.Autores # AutoresNoDisponibles
             THEN FieldLine(<<"a", "u", "t", "h", "o", "r">>, NoBraces(entrada.Autores)) ELSE <<>>
        y == IF entrada.Anio # <<>> /\ entrada.Anio # AnioNoDisponible
             THEN FieldLine(<<"y", "e", "a", "r">>, YearSearch(entrada.Anio)) ELSE <<>>
        d == IF entrada.DOI # <<>> /\ entrada.DOI # DoiNoDisponible
             THEN FieldLine(<<"d", "o", "i">>,
                            IF StartsWith(entrada.DOI, DoiOrgPrefix)
                            THEN RemoveAll(entrada.DOI, DoiOrgPrefix) ELSE entrada.DOI)
             ELSE <<>>
    IN  RStripCommaNewline(head \o t \o a \o y \o d) \o <<"\n", "}", "\n", "\n">>

Entrada(tipo, titulo, autores, anio, doi) ==
    [Tipo |-> tipo, Titulo |-> titulo, Autores |-> autores, Anio |-> anio, DOI |-> doi]

Article == <<"a", "r", "t", "i", "c", "l", "e">>

\* scraped articles: two with first authors of the same surname and year, one
\* without any metadata
EntradaPool ==
    { Entrada(Article, <<"x">>, <<"L", "i", ",", " ", "A">>, <<"2", "0", "2", "4">>, <<>>),
      Entrada(Article, <<"y">>, <<"B", " ", "L", "i", ";", " ", "C", " ", "W", "u">>, <<"c", "2", "0", "2", "4">>, <<"h", "t", "t", "p", "s", ":", "/", "/", "d", "o", "i", ".", "o", "r", "g", "/", "1", "/", "X">>),
      Entrada(Article, <<>>, <<>>, <<>>, <<>>) }

\* unificar: the separator written before each file's content
FileSeparator(name) ==
    <<"\n", "=", "=", "=", "=", "=", " ", "C", "O", "N", "T", "E", "N", "I", "D", "O", " ", "D", "E", "L", " ", "A", "R", "C", "H", "I", "V", "O", ":", " ">> \o name \o <<" ", "=", "=", "=", "=", "=", "\n", "\n">>

(***************************************************************************)
(* parse_unified_file                                                      *)
(***************************************************************************)
\* the text at q reads @\w+\{
HeaderAt(c, q) ==
    /\ q <= Len(c) /\ c[q] = "@"
    /\ WordRunEnd(c, q + 1) > q + 1
    /\ WordRunEnd(c, q + 1) <= Len(c)
    /\ c[WordRunEnd(c, q + 1)] = "{"

\* the newlines re.split(r'\n(?=@\w+\{)', content) splits at
SplitPoints(c) == { p \in 1..Len(c) : c[p] = "\n" /\ HeaderAt(c, p + 1) }

RECURSIVE SplitFrom(_, _)
SplitFrom(c, start) ==
    LET S == { p \in SplitPoints(c) : p >= start }
    IN  IF S = {} THEN << SubSeq(c, start, Len(c)) >>
        ELSE << SubSeq(c, start, FirstOf(S) - 1) >> \o SplitFrom(c, FirstOf(S) + 1)

NoMatch == [ok |-> FALSE, type |-> <<>>, key |-> <<>>]

\* re.match(r'@(\w+)\s*\{\s*([^,]+),', entry)
HeaderMatch(e) ==
    IF e = <<>> \/ e[1] # "@" THEN NoMatch
    ELSE LET w == WordRunEnd(e, 2)
             b == SkipSpaces(e, w)
         IN  IF w = 2 \/ b > Len(e) \/ e[b] # "{" THEN NoMatch
             ELSE LET comma == Find(e, b + 1, ",")
                      k     == SkipSpaces(e, b + 1)
                  IN  IF comma = 0 \/ comma = b + 1 THEN NoMatch
                      ELSE [ok   |-> TRUE,
                            type |-> SubSeq(e, 2, w - 1),
                            key  |-> IF k < comma THEN SubSeq(e, k, comma - 1)
                                     ELSE << e[comma - 1] >>]

\* the value alternatives of the field pattern tried at v:
\* \{([^}]*)\}  |  "([^"]*)"  |  ([^,\n]+)
ValueAt(e, v) ==
    IF v > Len(e) THEN [ok |-> FALSE, val |-> <<>>, end |-> v]
    ELSE LET close == IF v < Len(e) THEN Find(e, v + 1, IF e[v] = "{" THEN "}" ELSE "\"")
                      ELSE 0
             stop  == FirstOf({ k \in v..(Len(e) + 1) :
                                   k = Len(e) + 1 \/ e[k] \in {",", "\n"} })
         IN  IF e[v] \in {"{", "\""} /\ close # 0
             THEN [ok |-> TRUE, val |-> SubSeq(e, v + 1, close - 1), end |-> close + 1]
             ELSE IF stop > v
             THEN [ok |-> TRUE, val |-> SubSeq(e, v, stop - 1), end |-> stop]
             ELSE [ok |-> FALSE, val |-> <<>>, end |-> v]

\* (\w+)\s*=\s*(value)\s*,? tried at s; \s* after = gives back spaces until a
\* value alternative matches
FieldAt(e, s) ==
    IF s > Len(e) \/ ~IsWordChar(e[s]) THEN [ok |-> FALSE]
    ELSE LET w  == WordRunEnd(e, s)
             eq == SkipSpaces(e, w)
         IN  IF eq > Len(e) \/ e[eq] # "=" THEN [ok |-> FALSE]
             ELSE LET top == SkipSpaces(e, eq + 1)
                      V   == { v \in (eq + 1)..top : ValueAt(e, v).ok }
                  IN  IF V = {} THEN [ok |-> FALSE]
                      ELSE LET v   == CHOOSE x \in V : \A y \in V : y <= x
                               m   == ValueAt(e, v)
                               t   == SkipSpaces(e, m.end)
                           IN  [ok   |-> TRUE,
                                name |-> Lower(SubSeq(e, s, w - 1)),
                                val  |-> Strip(m.val),
                                end  |-> IF t <= Len(e) /\ e[t] = "," THEN t + 1 ELSE t]

\* the loop over re.finditer of lines 93-96: fields[field] = val.strip()
RECURSIVE Fields(_, _)
Fields(e, pos) ==
    LET S == { s \in pos..Len(e) : FieldAt(e, s).ok }
    IN  IF S = {} THEN <<>>
        ELSE LET m    == FieldAt(e, FirstOf(S))
                 rest == Fields(e, m.end)
             IN  IF m.name \in DOMAIN rest THEN rest ELSE Put(rest, m.name, m.val)

Get(fields, name) == IF name \in DOMAIN fields THEN fields[name] ELSE <<>>

\* str(n) for 0 <= n <= 99
DigitChar(d) == <<"0", "1", "2", "3", "4", "5", "6", "7", "8", "9">>[d + 1]
IntStr(n) == IF n < 10 THEN << DigitChar(n) >> ELSE << DigitChar(n \div 10), DigitChar(n % 10) >>

\* a match of \s+[aA][nN][dD]\s+ starts at k
AndAt(s, k) ==
    LET a == SkipSpaces(s, k)
    IN  /\ IsSpace(s[k]) /\ a + 3 <= Len(s)
        /\ Lower(SubSeq(s, a, a + 2)) = <<"a", "n", "d">>
        /\ IsSpace(s[a + 3])

\* re.split(r'\s+[aA][nN][dD]\s+', s)
RECURSIVE SplitAnd(_)
SplitAnd(s) ==
    LET S == { k \in 1..Len(s) : AndAt(s, k) }
    IN  IF S = {} THEN << s >>
        ELSE LET k == FirstOf(S)
                 e == SkipSpaces(s, SkipSpaces(s, k) + 3)
             IN  << SubSeq(s, 1, k - 1) >> \o SplitAnd(SubSeq(s, e, Len(s)))

\* s.split(',')
RECURSIVE SplitComma(_)
SplitComma(s) ==
    LET k == Find(s, 1, ",")
    IN  IF k = 0 THEN << s >>
        ELSE << SubSeq(s, 1, k - 1) >> \o SplitComma(SubSeq(s, k + 1, Len(s)))

IsNoBraceQuote(c) == c \notin {"{", "}", "\""}
IsNotEmpty(s) == s # <<>>

\* re.sub(r'[{}"]', '', p.strip()).strip() of every part
CleanPart(p) == Strip(SelectSeq(Strip(p), IsNoBraceQuote))

author_list_from_field(field) ==
    IF field = <<>> THEN <<>>
    ELSE LET parts == IF IsSubstr(<<" ", "a", "n", "d", " ">>, Lower(field)) THEN SplitAnd(field)
                      ELSE SplitComma(field)
         IN  SelectSeq([k \in 1..Len(parts) |-> CleanPart(parts[k])], IsNotEmpty)

RecordOf(entry, n) ==
    LET h      == HeaderMatch(entry)
        fields == Fields(entry, 1)
        author == IF Get(fields, <<"a", "u", "t", "h", "o", "r">>) # <<>> THEN Get(fields, <<"a", "u", "t", "h", "o", "r">>)
                  ELSE Get(fields, <<"a", "u", "t", "h", "o", "r", "s">>)
    IN  [bibkey         |-> IF h.ok THEN h.key ELSE <<"e", "n", "t", "r", "y", "_">> \o IntStr(n + 1),
         type           |-> IF h.ok THEN h.type ELSE <<"u", "n", "k", "n", "o", "w", "n">>,
         title          |-> Get(fields, <<"t", "i", "t", "l", "e">>),
         authors_raw    |-> author,
         authors        |-> author_list_from_field(author),
         year           |-> Get(fields, <<"y", "e", "a", "r">>),
         doi            |-> Get(fields, <<"d", "o", "i">>),
         url            |-> Get(fields, <<"u", "r", "l">>),
         abstract       |-> Get(fields, <<"a", "b", "s", "t", "r", "a", "c", "t">>),
         references_raw |-> Get(fields, <<"r", "e", "f", "e", "r", "e", "n", "c", "e", "s">>),
         raw_entry      |-> entry]

RECURSIVE ParseLoopSkipHeaderless(_, _)
ParseLoopSkipHeaderless(pieces, k) ==
    IF k = 0 THEN <<>>
    ELSE LET done  == ParseLoopSkipHeaderless(pieces, k - 1)
             entry == Strip(pieces[k])
         IN  IF entry = <<>> \/ ~HeaderMatch(entry).ok THEN done
             ELSE Append(done, RecordOf(entry, Len(done)))

\* the loop of lines 84-117 over the first k pieces
RECURSIVE ParseLoop(_, _)
ParseLoop(pieces, k) ==
    IF k = 0 THEN <<>>
    ELSE LET done  == ParseLoop(pieces, k - 1)
             entry == Strip(pieces[k])
         IN  IF entry = <<>> THEN done
             ELSE Append(done, RecordOf(entry, Len(done)))

parse_unified_file(c) == LET pieces == SplitFrom(c, 1) IN ParseLoop(pieces, Len(pieces))

\* what the unified file is made of: blocks written by crear_entrada_bibtex,
\* the separator unificar writes, and hand-written text (a block whose key
\* reads like a synthetic one, a comment line, a header with a space before
\* its brace)
ChunkPool ==
    { crear_entrada_bibtex(e) : e \in EntradaPool }
      \cup { FileSeparator(<<"a", ".", "b", "i", "b">>),
             <<"@", "m", "i", "s", "c", "{", "e", "n", "t", "r", "y", "_", "2", ",", "\n", "}", "\n">>,
             <<"%", " ", "x", "\n">>,
             <<"@", "a", " ", "{", "k", ",", "\n", " ", "t", " ", "=", " ", "1", "\n", "}", "\n">> }

MaxChunks == 3

RECURSIVE Concat(_)
Concat(ss) == IF ss = <<>> THEN <<>> ELSE Head(ss) \o Concat(Tail(ss))

Contents == { Concat(ss) : ss \in UNION { [1..n -> ChunkPool] : n \in 0..MaxChunks } }

ParseInit ==
    /\ pc = "content"
    /\ content \in Contents
    /\ parsed = Idle
    /\ entries = Idle /\ title_cos = Idle /\ params = Idle /\ G = Idle
    /\ graph = Idle /\ query = Idle /\ out = Idle

Parse ==
    /\ pc = "content"
    /\ parsed' = parse_unified_file(content)
    /\ pc' = "parsed"
    /\ UNCHANGED <<content, entries, title_cos, params, G, graph, query, out>>

ParseNext == Parse

ParseSpec == ParseInit /\ [][ParseNext]_vars

Parsed == pc = "parsed"

\* the positions where a line starts with a type/key header @type{
HeaderStarts(c) == { q \in 1..Len(c) : (q = 1 \/ c[q - 1] = "\n") /\ HeaderAt(c, q) }

\* the k-th smallest element of S
Nth(S, k) == CHOOSE x \in S : Cardinality({ y \in S : y < x }) = k - 1

\* the text of the k-th header block: from its header to the next header
HeaderBlock(c, k) ==
    LET H == HeaderStarts(c)
    IN  SubSeq(c, Nth(H, k),
               IF k < Cardinality(H) THEN Nth(H, k + 1) - 1 ELSE Len(c))

\* the text before the first header (the whole text when there is none)
LeadingText(c) ==
    IF HeaderStarts(c) = {} THEN c ELSE SubSeq(c, 1, Nth(HeaderStarts(c), 1) - 1)

\* C4: every record parse_unified_file returns comes from a block that
\* yielded at least one field = value pair: a zero-field block produces no
\* record (and does not abort the parse).
C4_ZeroFieldBlocksSkipped ==
    Parsed => \A k \in 1..Len(parsed) : Fields(parsed[k].raw_entry, 1) # <<>>

\* C5 (as claimed): exactly one record per block that begins with a header
\* line, in input order; other text produces no record.
C5_OneRecordPerHeaderBlock ==
    Parsed =>
        /\ Len(parsed) = Cardinality(HeaderStarts(content))
        /\ \A k \in 1..Len(parsed) :
              parsed[k].raw_entry = Strip(HeaderBlock(content, k))

\* C5 (amended): one record per header block, in input order, preceded by one
\* record for the text before the first header when that text is not blank;
\* a block in which no @type{key, header is matched gets the type "unknown"
\* and the key entry_{n}, n its position in the list.
C5_OneRecordPerBlockAndLeadingText ==
    Parsed =>
        LET lead == IF Strip(LeadingText(content)) # <<>> THEN 1 ELSE 0
        IN  /\ Len(parsed) = lead + Cardinality(HeaderStarts(content))
            /\ lead = 1 => parsed[1].raw_entry = Strip(LeadingText(content))
            /\ \A k \in 1..Cardinality(HeaderStarts(content)) :
                  parsed[lead + k].raw_entry = Strip(HeaderBlock(content, k))
            /\ \A k \in 1..Len(parsed) :
                  ~HeaderMatch(parsed[k].raw_entry).ok
                      => /\ parsed[k].type = <<"u", "n", "k", "n", "o", "w", "n">>
                         /\ parsed[k].bibkey = <<"e", "n", "t", "r", "y", "_">> \o IntStr(k)

\* C5 witness: text before the first header followed by two header blocks
\* gives three records, the first of type "unknown".
C5_Witness ==
    /\ Parsed
    /\ Strip(LeadingText(content)) # <<>>
    /\ Cardinality(HeaderStarts(content)) = 2
    /\ Len(parsed) = 3
    /\ parsed[1].type = <<"u", "n", "k", "n", "o", "w", "n">>
    /\ parsed[2].type = Article

\* C6: the records of one call carry pairwise distinct keys, header keys and
\* synthetic entry_{n} keys together.
C6_KeysDistinct ==
    Parsed => \A i, j \in 1..Len(parsed) : i # j => parsed[i].bibkey # parsed[j].bibkey

(***************************************************************************)
(* caminos_minimos: add_cost_attribute and the shortest-path operations    *)
(***************************************************************************)
\* one whole unit of cost in millionths; 1e-6 is min_weight_eps
Million == 1000000

Cost(hi, lo) == [hi |-> hi, lo |-> lo]

\* min_weight_eps = 1e-6
Epsilon == Cost(0, 1)

\* math.inf / float("inf")
Infinity == Cost(-1, 0)
IsInf(a) == a.hi = -1

\* float("nan"): what 1.0 / nan and 1.0 - nan give
NotANumber == Cost(-2, 0)
IsNaN(a) == a.hi = -2

\* a + b on floats that are not negative
CostAdd(a, b) ==
    IF IsInf(a) \/ IsInf(b) THEN Infinity
    ELSE [hi |-> a.hi + b.hi + ((a.lo + b.lo) \div Million),
          lo |-> (a.lo + b.lo) % Million]

\* a < b
CostLess(a, b) ==
    /\ ~IsInf(a)
    /\ IsInf(b) \/ a.hi < b.hi \/ (a.hi = b.hi /\ a.lo < b.lo)

\* 1.0 / w for a weight w > 0 given in 1/10000, cut to millionths
Inverse(w) ==
    LET r1 == ((10000 % w) * 1000) % w
    IN  Cost(10000 \div w,
             ((((10000 % w) * 1000) \div w) * 1000) + ((r1 * 1000) \div w))

\* An edge weight is a number in 1/10000, or missing (None), or a value
\* float() rejects, or one of the floats float() accepts that are no such
\* number: nan, inf, and a positive float so small that 1.0 / w overflows.
Num(w) == [kind |-> "num", val |-> w]
NoWeight == [kind |-> "none", val |-> 0]
BadWeight == [kind |-> "text", val |-> 0]
NaNWeight == [kind |-> "nan", val |-> 0]
InfWeight == [kind |-> "inf", val |-> 0]
TinyWeight == [kind |-> "tiny", val |-> 0]

\* lines 82-89: w = data.get('weight'); 1.0 when missing or not a number
WeightOf(x) == IF x.kind = "num" THEN x.val ELSE 10000

\* lines 90-108 for a weight that is a number in 1/10000
CostOfNumber(w, mode) ==
    IF mode = "inv"
    THEN IF w <= 0 THEN Cost(Million, 0) ELSE Inverse(w)
    ELSE IF mode = "1minus"
    THEN LET c == Max2(0, Min2(w, 10000))
         IN  IF 10000 - c = 0 THEN Epsilon
             ELSE Cost((10000 - c) \div 10000, ((10000 - c) % 10000) * 100)
    ELSE Cost(1, 0)

\* lines 90-108: the cost of one edge. Every comparison with nan is false,
\* so nan passes "w <= 0", "w < 0", "w > 1" and "cost == 0" unchanged;
\* 1.0 / inf is 0.0; 1.0 / w is inf and 1.0 - w is 1.0 for the tiny w.
CostOf(x, mode) ==
    IF x.kind = "nan"
    THEN IF mode \in {"inv", "1minus"} THEN NotANumber ELSE Cost(1, 0)
    ELSE IF x.kind = "inf"
    THEN IF mode = "inv" THEN Cost(0, 0)
         ELSE IF mode = "1minus" THEN Epsilon ELSE Cost(1, 0)
    ELSE IF x.kind = "tiny"
    THEN IF mode = "inv" THEN Infinity ELSE Cost(1, 0)
    ELSE CostOfNumber(WeightOf(x), mode)

add_cost_attribute(g, mode) ==
    [g EXCEPT !.cost = [e \in DOMAIN g.weight |-> CostOf(g.weight[e], mode)]]

InGraph(g, v) == \E k \in 1..Len(g.nodes) : g.nodes[k] = v

\* the successors of v in adjacency order
Successors(g, v) ==
    SelectSeq(g.nodes, LAMBDA u : <<v, u>> \in DOMAIN g.weight)

\* networkx's weight function: data.get('cost', 1)
EdgeCost(g, v, u) == IF <<v, u>> \in DOMAIN g.cost THEN g.cost[<<v, u>>] ELSE Cost(1, 0)

\* Python's None as a target or a limit, and truthiness ("if target:")
PyNone == "None"
Truthy(x) == x # PyNone /\ x # ""

\* the loop over G_succ[v] in networkx's _dijkstra_multisource
RECURSIVE Relax(_, _, _, _)
Relax(g, v, us, st) ==
    IF us = <<>> THEN st
    ELSE LET u       == Head(us)
             vu_dist == CostAdd(st.dist[v], EdgeCost(g, v, u))
             st1 ==
                 IF u \in DOMAIN st.dist THEN st
                 ELSE IF u \notin DOMAIN st.seen \/ CostLess(vu_dist, st.seen[u])
                 THEN [st EXCEPT !.seen = Put(st.seen, u, vu_dist),
                                 !.fringe = st.fringe \cup {<<vu_dist, st.c, u>>},
                                 !.c = st.c + 1,
                                 !.paths = Put(st.paths, u, Append(st.paths[v], u))]
                 ELSE st
         IN  Relax(g, v, Tail(us), st1)

\* heappop: the least (distance, counter, node)
Top(fringe) ==
    CHOOSE x \in fringe :
        \A y \in fringe :
            x = y \/ CostLess(x[1], y[1]) \/ (x[1] = y[1] /\ x[2] < y[2])

\* the while loop of _dijkstra_multisource, leaving at the target
RECURSIVE DijkstraLoop(_, _, _)
DijkstraLoop(g, target, st) ==
    IF st.fringe = {} THEN st
    ELSE LET top  == Top(st.fringe)
             rest == st.fringe \ {top}
             v    == top[3]
         IN  IF v \in DOMAIN st.dist
             THEN DijkstraLoop(g, target, [st EXCEPT !.fringe = rest])
             ELSE LET st1 == [st EXCEPT !.fringe = rest, !.dist = Put(st.dist, v, top[1])]
                  IN  IF v = target THEN st1
                      ELSE DijkstraLoop(g, target, Relax(g, v, Successors(g, v), st1))

\* nx.single_source_dijkstra(G, source, target): distances and paths of the
\* nodes settled (all reachable nodes when target is None)
single_source_dijkstra(g, source, target) ==
    LET st == DijkstraLoop(g, target,
                [dist |-> <<>>, seen |-> Put(<<>>, source, Cost(0, 0)),
                 paths |-> Put(<<>>, source, <<source>>),
                 fringe |-> {<<Cost(0, 0), 0, source>>}, c |-> 1])
    IN  [dist |-> st.dist, paths |-> [v \in DOMAIN st.dist |-> st.paths[v]]]

dijkstra_shortest_path(g, source, target) ==
    IF ~InGraph(g, source) THEN [kind |-> "KeyError"]
    ELSE IF Truthy(target)
    THEN LET r == single_source_dijkstra(g, source, target)
         IN  IF target \in DOMAIN r.dist
             THEN [kind |-> "pair", length |-> r.dist[target], path |-> r.paths[target]]
             ELSE [kind |-> "pair", length |-> Infinity, path |-> <<>>]
    ELSE LET r == single_source_dijkstra(g, source, PyNone)
         IN  [kind |-> "all", lengths |-> r.dist, paths |-> r.paths]

NodeSet(g) == { g.nodes[k] : k \in 1..Len(g.nodes) }

\* dist[u][u] = 0, dist[u][v] = min(cost, dist[u][v]) for every edge, else inf
FloydInit(g) ==
    [u \in NodeSet(g) |->
        [v \in NodeSet(g) |->
            IF u = v THEN Cost(0, 0)
            ELSE IF <<u, v>> \in DOMAIN g.weight THEN EdgeCost(g, u, v)
            ELSE Infinity]]

FloydPredInit(g) ==
    [u \in NodeSet(g) |-> [v \in { x \in NodeSet(g) : <<u, x>> \in DOMAIN g.weight } |-> u]]

\* "if dist_u[v] > d" for d = dist[u][w] + dist[w][v]
Shorter(fw, w, u, v) ==
    CostLess(CostAdd(fw.dist[u][w], fw.dist[w][v]), fw.dist[u][v])

FloydRoundNoRelax(g, fw, w) == fw

\* one round "for u in G: for v in G" through w; row w and column w do not
\* change in the round because dist[w][w] = 0
FloydRound(g, fw, w) ==
    [dist |-> [u \in NodeSet(g) |->
                 [v \in NodeSet(g) |->
                     IF Shorter(fw, w, u, v)
                     THEN CostAdd(fw.dist[u][w], fw.dist[w][v])
                     ELSE fw.dist[u][v]]],
     pred |-> [u \in NodeSet(g) |->
                 [v \in { x \in NodeSet(g) : x \in DOMAIN fw.pred[u] \/ Shorter(fw, w, u, x) } |->
                     IF Shorter(fw, w, u, v) THEN fw.pred[w][v] ELSE fw.pred[u][v]]]]

\* "for w in G"
RECURSIVE FloydLoop(_, _, _)
FloydLoop(g, fw, k) ==
    IF k = 0 THEN fw
    ELSE FloydRound(g, FloydLoop(g, fw, k - 1), g.nodes[k])

\* nx.floyd_warshall_predecessor_and_distance: no test on the size of G
floyd_warshall_all_pairs(g) ==
    LET fw == FloydLoop(g, [dist |-> FloydInit(g), pred |-> FloydPredInit(g)], Len(g.nodes))
    IN  [kind |-> "floyd", pred |-> fw.pred, dist |-> fw.dist]

\* nodes[:nodes_limit] when nodes_limit is truthy
LimitedNodes(g, limit) ==
    IF limit.given /\ limit.n # 0 THEN SubSeq(g.nodes, 1, Min2(limit.n, Len(g.nodes)))
    ELSE g.nodes

all_pairs_dijkstra(g, limit) ==
    LET src == LimitedNodes(g, limit)
        S   == { src[k] : k \in 1..Len(src) }
    IN  [kind |-> "all_pairs",
         distances |-> [s \in S |-> single_source_dijkstra(g, s, PyNone).dist],
         paths     |-> [s \in S |-> single_source_dijkstra(g, s, PyNone).paths]]

(***************************************************************************)
(* caminos_minimos.main: load the graph, add the cost, run the operations  *)
(***************************************************************************)
\* node ids as load_graph reads them; read_graphml and the CSV reader accept
\* the empty string as an id
NodeIds == <<"a", "b", "c">>
EmptyIdNodes == <<"a", "">>
MaxEdges == 3

\* weights as construir_grafo_citaciones writes them: 1.0, 0.5, 0.2
WeightValues == {Num(10000), Num(5000), Num(2000)}

Modes == {"inv", "1minus", "unit"}

NodeLists == { SubSeq(NodeIds, 1, n) : n \in 0..Len(NodeIds) } \cup {EmptyIdNodes}

EdgeSets(ns) ==
    { D \in SUBSET { e \in { ns[k] : k \in 1..Len(ns) } \X { ns[k] : k \in 1..Len(ns) } : e[1] # e[2] } :
        Cardinality(D) <= MaxEdges }

\* the DiGraph load_graph returns: nodes in file order, one weight per edge
Graphs ==
    UNION { UNION { { [nodes |-> ns, weight |-> f, cost |-> <<>>] : f \in [D -> WeightValues] }
                    : D \in EdgeSets(ns) }
            : ns \in NodeLists }

AbsentNode == "z"

Sources(g) == NodeSet(g) \cup {AbsentNode}
Targets(g) == NodeSet(g) \cup {AbsentNode, "", PyNone}
NoLimit == [given |-> FALSE, n |-> 0]
Limits(g) == {NoLimit} \cup { [given |-> TRUE, n |-> k] : k \in 0..Len(g.nodes) }

PathsInit ==
    /\ pc = "loaded"
    /\ graph \in Graphs
    /\ query = Idle
    /\ out = Idle
    /\ entries = Idle /\ title_cos = Idle /\ params = Idle /\ G = Idle
    /\ content = Idle /\ parsed = Idle

AddCost ==
    /\ pc = "loaded"
    /\ \E mode \in Modes :
          /\ graph' = add_cost_attribute(graph, mode)
          /\ query' = [op |-> "cost", mode |-> mode]
    /\ pc' = "costed"
    /\ UNCHANGED <<out, entries, title_cos, params, G, content, parsed>>

Dijkstra ==
    /\ pc = "costed"
    /\ \E s \in Sources(graph), t \in Targets(graph) :
          /\ query' = [op |-> "dijkstra", source |-> s, target |-> t]
          /\ out' = dijkstra_shortest_path(graph, s, t)
    /\ pc' = "done"
    /\ UNCHANGED <<graph, entries, title_cos, params, G, content, parsed>>

Floyd ==
    /\ pc = "costed"
    /\ query' = [op |-> "floyd"]
    /\ out' = floyd_warshall_all_pairs(graph)
    /\ pc' = "done"
    /\ UNCHANGED <<graph, entries, title_cos, params, G, content, parsed>>

AllDijkstra ==
    /\ pc = "costed"
    /\ \E limit \in Limits(graph) :
          /\ query' = [op |-> "all_dijkstra", limit |-> limit]
          /\ out' = all_pairs_dijkstra(graph, limit)
    /\ pc' = "done"
    /\ UNCHANGED <<graph, entries, title_cos, params, G, content, parsed>>

\* the weights a graph file may carry beyond those the builder writes
AnyWeightValues ==
    { Num(w) : w \in {-5000, 0, 1, 2000, 5000, 9999, 10000, 15000, 30000} }
        \cup {NoWeight, BadWeight, NaNWeight, InfWeight, TinyWeight}

CostGraphs ==
    UNION { { [nodes |-> <<"a", "b">>, weight |-> f, cost |-> <<>>] : f \in [D -> AnyWeightValues] }
            : D \in SUBSET {<<"a", "b">>, <<"b", "a">>} }

CostInit ==
    /\ pc = "loaded"
    /\ graph \in CostGraphs
    /\ query = Idle
    /\ out = Idle
    /\ entries = Idle /\ title_cos = Idle /\ params = Idle /\ G = Idle
    /\ content = Idle /\ parsed = Idle

CostNext == AddCost

CostSpec == CostInit /\ [][CostNext]_vars

Costed == pc = "costed"

PathsNext == AddCost \/ Dijkstra \/ Floyd \/ AllDijkstra

PathsSpec == PathsInit /\ [][PathsNext]_vars

(***************************************************************************)
(* Shortest paths: what a run of caminos_minimos leaves in out             *)
(***************************************************************************)
DijkstraDone == pc = "done" /\ query.op = "dijkstra"
FloydDone == pc = "done" /\ query.op = "floyd"
AllDijkstraDone == pc = "done" /\ query.op = "all_dijkstra"

\* the nodes reached from the set S along the edges of g
RECURSIVE ReachSet(_, _)
ReachSet(g, S) ==
    LET T == S \cup { e[2] : e \in { x \in DOMAIN g.weight : x[1] \in S } }
    IN  IF T = S THEN S ELSE ReachSet(g, T)

Reachable(g, s, t) == InGraph(g, s) /\ t \in ReachSet(g, {s})

IsPath(g, p, s, t) ==
    /\ Len(p) >= 1
    /\ p[1] = s
    /\ p[Len(p)] = t
    /\ \A k \in 1..(Len(p) - 1) : <<p[k], p[k + 1]>> \in DOMAIN g.weight

RECURSIVE PathCost(_, _)
PathCost(g, p) ==
    IF Len(p) <= 1 THEN Cost(0, 0)
    ELSE CostAdd(PathCost(g, SubSeq(p, 1, Len(p) - 1)), EdgeCost(g, p[Len(p) - 1], p[Len(p)]))

\* every node sequence with at most one node more than g has
Walks(g) == UNION { [1..n -> NodeSet(g)] : n \in 1..(Len(g.nodes) + 1) }

\* (d, p): p is a path from s to t, d is its cost and no path costs less
ShortestPair(g, s, t, r) ==
    /\ r.kind = "pair"
    /\ IsPath(g, r.path, s, t)
    /\ r.length = PathCost(g, r.path)
    /\ \A q \in Walks(g) : IsPath(g, q, s, t) => ~CostLess(PathCost(g, q), r.length)

\* edges a->b (w=1.0), b->c (w=0.5), c->a (w=0.2) under the inverse cost
Triangle ==
    /\ graph.nodes = <<"a", "b", "c">>
    /\ DOMAIN graph.weight = {<<"a", "b">>, <<"b", "c">>, <<"c", "a">>}
    /\ graph.weight[<<"a", "b">>] = Num(10000)
    /\ graph.weight[<<"b", "c">>] = Num(5000)
    /\ graph.weight[<<"c", "a">>] = Num(2000)
    /\ graph.cost = add_cost_attribute(graph, "inv").cost

\* C7: for every source in the graph and every target reachable from it,
\* dijkstra_shortest_path returns (d, p) with p a path from source to
\* target, d the sum of its edge costs and no path cheaper; on the triangle
\* a->b (1.0), b->c (0.5), c->a (0.2) with inverse costs the result for
\* (a, c) is distance 3 and path [a, b, c].
C7_ShortestPathReturned ==
    DijkstraDone =>
        /\ Reachable(graph, query.source, query.target)
              => ShortestPair(graph, query.source, query.target, out)
        /\ (Triangle /\ query.source = "a" /\ query.target = "c")
              => out = [kind |-> "pair", length |-> Cost(3, 0), path |-> <<"a", "b", "c">>]

\* The same holds of every reachable target that Python takes as true.
ShortestPathForTruthyTarget ==
    DijkstraDone =>
        /\ (Reachable(graph, query.source, query.target) /\ Truthy(query.target))
              => ShortestPair(graph, query.source, query.target, out)
        /\ (Triangle /\ query.source = "a" /\ query.target = "c")
              => out = [kind |-> "pair", length |-> Cost(3, 0), path |-> <<"a", "b", "c">>]

TriangleAnswered ==
    DijkstraDone /\ Triangle /\ query.source = "a" /\ query.target = "c"

\* C8: dijkstra_shortest_path fails with the source-not-in-graph error
\* exactly when source is not a node; when source is a node and a target is
\* given that no path reaches, it returns (infinity, empty path).
C8_KeyErrorAndSentinel ==
    DijkstraDone =>
        /\ out.kind = "KeyError" <=> ~InGraph(graph, query.source)
        /\ (/\ InGraph(graph, query.source)
            /\ query.target # PyNone
            /\ ~Reachable(graph, query.source, query.target))
              => out = [kind |-> "pair", length |-> Infinity, path |-> <<>>]

\* The sentinel is returned for every unreachable target Python takes as true.
SentinelForTruthyTarget ==
    DijkstraDone =>
        /\ out.kind = "KeyError" <=> ~InGraph(graph, query.source)
        /\ (/\ InGraph(graph, query.source)
            /\ Truthy(query.target)
            /\ ~Reachable(graph, query.source, query.target))
              => out = [kind |-> "pair", length |-> Infinity, path |-> <<>>]

\* C9: floyd_warshall_all_pairs and all_pairs_dijkstra without a limit
\* compute the same all-pairs result: the same distance for every ordered
\* pair of nodes, and a pair without a path represented the same way.
C9_SameAllPairsResult ==
    /\ FloydDone => out.dist = all_pairs_dijkstra(graph, NoLimit).distances
    /\ (AllDijkstraDone /\ LimitedNodes(graph, query.limit) = graph.nodes)
          => out.distances = floyd_warshall_all_pairs(graph).dist

\* C9 as the code has it: both report the same distance for every ordered
\* pair joined by a path; a pair without a path has distance infinity in the
\* Floyd-Warshall result and no entry in the Dijkstra result.
C9_SameDistancesWherePath ==
    /\ FloydDone =>
          LET apd == all_pairs_dijkstra(graph, NoLimit).distances
          IN  \A s \in NodeSet(graph), t \in NodeSet(graph) :
                 IF Reachable(graph, s, t)
                 THEN t \in DOMAIN apd[s] /\ out.dist[s][t] = apd[s][t]
                 ELSE t \notin DOMAIN apd[s] /\ out.dist[s][t] = Infinity
    /\ (AllDijkstraDone /\ LimitedNodes(graph, query.limit) = graph.nodes) =>
          LET fw == floyd_warshall_all_pairs(graph).dist
          IN  \A s \in NodeSet(graph), t \in NodeSet(graph) :
                 IF Reachable(graph, s, t)
                 THEN t \in DOMAIN out.distances[s] /\ out.distances[s][t] = fw[s][t]
                 ELSE t \notin DOMAIN out.distances[s] /\ fw[s][t] = Infinity

\* Floyd-Warshall has run on a graph with a pair joined only through a third
\* node and a pair without a path
C9_Witness ==
    /\ FloydDone
    /\ \E s \in NodeSet(graph), t \in NodeSet(graph) :
          /\ s # t
          /\ Reachable(graph, s, t)
          /\ <<s, t>> \notin DOMAIN graph.weight
          /\ out.dist[s][t] # Infinity
    /\ \E s \in NodeSet(graph), t \in NodeSet(graph) : ~Reachable(graph, s, t)

\* C10: a Floyd-Warshall request on a graph with more nodes than a safe
\* bound fails with an error before the O(n^3) work, whatever the bound is
\* among the sizes of the graphs loaded.
C10_FloydSizeGuard ==
    FloydDone =>
        \E bound \in 0..(Len(NodeIds) - 1) :
            Len(graph.nodes) > bound => out.kind # "floyd"

(***************************************************************************)
(* add_cost_attribute: the cost every edge carries                         *)
(***************************************************************************)
\* the weight lines 82-89 leave in w is a float other than nan
IsNumberWeight(x) == x.kind # "nan"

\* w > 0 for the weight lines 82-89 leave in w (1.0 when missing or rejected)
PositiveWeight(x) ==
    \/ x.kind \in {"none", "text", "inf", "tiny"}
    \/ x.kind = "num" /\ x.val > 0

\* 1.0 / w in floating point for a weight w > 0
InverseOfWeight(x) ==
    IF x.kind = "inf" THEN Cost(0, 0)
    ELSE IF x.kind = "tiny" THEN Infinity
    ELSE Inverse(WeightOf(x))

\* a cost that is a finite number and not negative
FiniteNonNegative(c) == ~IsInf(c) /\ ~IsNaN(c) /\ c.hi >= 0 /\ c.lo >= 0

\* C11: after add_cost_attribute, in every mode and for every edge weight
\* (zero, negative, above 1, missing, not parseable), every edge of the
\* graph carries a cost that is finite and not negative.
C11_CostsFiniteNonNegative ==
    Costed =>
        /\ DOMAIN graph.cost = DOMAIN graph.weight
        /\ \A e \in DOMAIN graph.cost : FiniteNonNegative(graph.cost[e])

\* Every edge whose weight is a number in 1/10000, missing, rejected by
\* float() or inf carries a finite cost that is not negative.
CostsFiniteForOrdinaryWeights ==
    Costed =>
        /\ DOMAIN graph.cost = DOMAIN graph.weight
        /\ \A e \in DOMAIN graph.cost :
              graph.weight[e].kind \notin {"nan", "tiny"}
                  => FiniteNonNegative(graph.cost[e])

\* C12: in inverse mode cost = 1/weight for every edge with weight > 0 and
\* cost = 1/epsilon (1000000) for every other edge.
C12_InverseCost ==
    (Costed /\ query.mode = "inv") =>
        \A e \in DOMAIN graph.weight :
            IF PositiveWeight(graph.weight[e])
            THEN graph.cost[e] = InverseOfWeight(graph.weight[e])
            ELSE graph.cost[e] = Cost(Million, 0)

\* The same for every weight that is not nan.
InverseCostForNumbers ==
    (Costed /\ query.mode = "inv") =>
        \A e \in DOMAIN graph.weight :
            IsNumberWeight(graph.weight[e]) =>
                IF PositiveWeight(graph.weight[e])
                THEN graph.cost[e] = InverseOfWeight(graph.weight[e])
                ELSE graph.cost[e] = Cost(Million, 0)

\* the weight clamped to [0,1], in 1/10000, for a weight that is a number
ClampedWeight(x) ==
    IF x.kind = "num" THEN (IF x.val < 0 THEN 0 ELSE IF x.val > 10000 THEN 10000 ELSE x.val)
    ELSE IF x.kind = "tiny" THEN 0
    ELSE 10000

\* 1 - c for c in [0,1] (1/10000), with epsilon in place of 0
OneMinus(c) ==
    IF c = 10000 THEN Epsilon
    ELSE IF c = 0 THEN Cost(1, 0)
    ELSE Cost(0, (10000 - c) * 100)

\* a cost 1 - c for some c in [0,1], with epsilon in place of 0
OneMinusRange(c) == c = Cost(1, 0) \/ (c.hi = 0 /\ c.lo >= 1)

\* C13: in one_minus mode the weight is first clamped to [0,1], cost is
\* 1 - weight, and a result of exactly 0 is replaced by epsilon: no edge
\* gets cost 0 and a weight above 1 gets the cost of weight 1.
C13_OneMinusCost ==
    (Costed /\ query.mode = "1minus") =>
        \A e \in DOMAIN graph.weight :
            /\ OneMinusRange(graph.cost[e])
            /\ IsNumberWeight(graph.weight[e])
                  => graph.cost[e] = OneMinus(ClampedWeight(graph.weight[e]))
            /\ graph.cost[e] # Cost(0, 0)
            /\ (graph.weight[e].kind = "num" /\ graph.weight[e].val > 10000)
                  => graph.cost[e] = CostOf(Num(10000), "1minus")

\* The same for every weight that is not nan.
OneMinusCostForNumbers ==
    (Costed /\ query.mode = "1minus") =>
        \A e \in DOMAIN graph.weight :
            IsNumberWeight(graph.weight[e]) =>
                /\ OneMinusRange(graph.cost[e])
                /\ graph.cost[e] = OneMinus(ClampedWeight(graph.weight[e]))
                /\ graph.cost[e] # Cost(0, 0)
                /\ (graph.weight[e].kind = "num" /\ graph.weight[e].val > 10000)
                      => graph.cost[e] = CostOf(Num(10000), "1minus")

(***************************************************************************)
(* identificar_scc: identify_scc over a DiGraph given as the list of its   *)
(* nodes and the list of its edges, both in insertion order                *)
(***************************************************************************)
\* list(G[v]): the successors of v in insertion order
Adj(g, v) ==
    LET es == SelectSeq(g.edges, LAMBDA e : e[1] = v)
    IN  [k \in 1..Len(es) |-> es[k][2]]

\* position of the first successor of v after position p that has no
\* preorder number yet, 0 when the iterator neighbors[v] runs out
NextUnvisited(st, v, p) ==
    LET S == { k \in (p + 1)..Len(st.adj[v]) : st.adj[v][k] \notin DOMAIN st.preorder }
    IN  IF S = {} THEN 0 ELSE CHOOSE k \in S : \A x \in S : k <= x

\* a lowlink that ignores the successors
LowLinkOwn(st, v) == st.preorder[v]

\* lowlink[v] once every successor of v has been visited
LowLink(st, v) ==
    LET cand == { IF st.preorder[w] > st.preorder[v] THEN st.lowlink[w] ELSE st.preorder[w] :
                    w \in { st.adj[v][k] : k \in 1..Len(st.adj[v]) } \ st.found }
            \cup {st.preorder[v]}
    IN  CHOOSE m \in cand : \A x \in cand : m <= x

\* the nodes popped from scc_queue while their preorder number exceeds v's
PoppedWith(st, v) ==
    { st.sccq[k] : k \in { x \in 1..Len(st.sccq) :
                            \A y \in x..Len(st.sccq) : st.preorder[st.sccq[y]] > st.preorder[v] } }

\* "while queue:" of nx.strongly_connected_components
RECURSIVE SccWhile(_, _)
SccWhile(st, queue) ==
    IF queue = <<>> THEN st
    ELSE LET v   == queue[Len(queue)]
             st1 == IF v \in DOMAIN st.preorder THEN st
                    ELSE [st EXCEPT !.i = st.i + 1, !.preorder = Put(st.preorder, v, st.i + 1)]
             p   == NextUnvisited(st1, v, st1.nbr[v])
         IN  IF p # 0
             THEN SccWhile([st1 EXCEPT !.nbr[v] = p], Append(queue, st1.adj[v][p]))
             ELSE LET low  == LowLink(st1, v)
                      st2  == [st1 EXCEPT !.nbr[v] = Len(st1.adj[v]),
                                          !.lowlink = Put(st1.lowlink, v, low)]
                      rest == SubSeq(queue, 1, Len(queue) - 1)
                  IN  IF low = st2.preorder[v]
                      THEN LET scc == {v} \cup PoppedWith(st2, v)
                           IN  SccWhile([st2 EXCEPT !.sccq = SelectSeq(st2.sccq, LAMBDA x : x \notin scc),
                                                    !.found = st2.found \cup scc,
                                                    !.comps = Append(st2.comps, scc)],
                                        rest)
                      ELSE SccWhile([st2 EXCEPT !.sccq = Append(st2.sccq, v)], rest)

\* "for source in G: if source not in scc_found"
RECURSIVE SccFor(_, _, _)
SccFor(g, st, k) ==
    IF k > Len(g.nodes) THEN st
    ELSE IF g.nodes[k] \in st.found THEN SccFor(g, st, k + 1)
    ELSE SccFor(g, SccWhile(st, <<g.nodes[k]>>), k + 1)

\* the traversal of nx.strongly_connected_components: the adjacency lists
\* G[v], an iterator position per node, and what the loops build
SccTraversal(g) ==
    LET V == { g.nodes[k] : k \in 1..Len(g.nodes) }
    IN  SccFor(g, [adj |-> [v \in V |-> Adj(g, v)], nbr |-> [v \in V |-> 0],
                   preorder |-> <<>>, lowlink |-> <<>>, found |-> {}, sccq |-> <<>>,
                   i |-> 0, comps |-> <<>>], 1)

\* the components in the order nx.strongly_connected_components yields them
strongly_connected_components(g) == SccTraversal(g).comps

\* the components left in the order they were yielded
Unsorted(cs, size) == cs

\* list.sort(key=len, reverse=True): stable, so components of equal size
\* keep the order they had
RECURSIVE SortBySizeDesc(_, _)
SortBySizeDesc(cs, size) ==
    IF size = 0 THEN SelectSeq(cs, LAMBDA c : Cardinality(c) = 0)
    ELSE SelectSeq(cs, LAMBDA c : Cardinality(c) = size) \o SortBySizeDesc(cs, size - 1)

identify_scc(g) ==
    SortBySizeDesc(strongly_connected_components(g), Len(g.nodes))

\* graphs identify_scc is run on: the first n of four nodes and up to
\* MaxSccEdges distinct edges, self-loops included, in any insertion order
SccNodeIds == <<"a", "b", "c", "d">>

MaxSccEdges == 3

\* the lists of m distinct edges over the nodes ns
SccEdgeLists(ns, m) ==
    LET P == { ns[k] : k \in 1..Len(ns) } \X { ns[k] : k \in 1..Len(ns) }
    IN  { s \in [1..m -> P] : \A x, y \in 1..m : x # y => s[x] # s[y] }

SccGraphs(n, m) ==
    { [nodes |-> SubSeq(SccNodeIds, 1, n), edges |-> es] :
        es \in SccEdgeLists(SubSeq(SccNodeIds, 1, n), m) }

SccInit ==
    /\ pc = "graph"
    /\ \E n \in 0..Len(SccNodeIds), m \in 0..MaxSccEdges : graph \in SccGraphs(n, m)
    /\ out = <<>>
    /\ entries = Idle /\ title_cos = Idle /\ params = Idle /\ G = Idle
    /\ content = Idle /\ parsed = Idle /\ query = Idle

\* main of identificar_scc on the loaded graph; a later run of the program on
\* the same graph appends its result
IdentifyScc ==
    /\ pc \in {"graph", "scc"}
    /\ Len(out) < 2
    /\ out' = Append(out, identify_scc(graph))
    /\ pc' = "scc"
    /\ UNCHANGED <<entries, title_cos, params, G, content, parsed, graph, query>>

SccNext == IdentifyScc

SccSpec == SccInit /\ [][SccNext]_vars

(***************************************************************************)
(* Claims about identify_scc                                               *)
(***************************************************************************)
SccDone == pc = "scc"

Components == out[Len(out)]

SccNodes(g) == { g.nodes[k] : k \in 1..Len(g.nodes) }

SccEdges(g) == { g.edges[k] : k \in 1..Len(g.edges) }

RECURSIVE SccReach(_, _)
SccReach(g, S) ==
    LET T == S \cup { e[2] : e \in { x \in SccEdges(g) : x[1] \in S } }
    IN  IF T = S THEN S ELSE SccReach(g, T)

\* C14: the sets returned by identify_scc are pairwise disjoint, cover the
\* node set, and two nodes share a set exactly when each is reachable from
\* the other.
C14_SccPartition ==
    SccDone =>
        /\ \A x, y \in 1..Len(Components) :
              x # y => Components[x] \cap Components[y] = {}
        /\ UNION { Components[x] : x \in 1..Len(Components) } = SccNodes(graph)
        /\ LET reach == [u \in SccNodes(graph) |-> SccReach(graph, {u})]
           IN  \A u, v \in SccNodes(graph) :
                  (\E x \in 1..Len(Components) : u \in Components[x] /\ v \in Components[x])
                     <=> (v \in reach[u] /\ u \in reach[v])

\* a graph with an isolated node, a self-loop and a two-node cycle that an
\* edge leaves
C14_Witness ==
    /\ SccDone
    /\ SccEdges(graph) = { <<"a", "b">>, <<"b", "a">>, <<"c", "c">> }
    /\ Len(graph.nodes) = 4
    /\ Len(Components) = 3

\* the preorder number each node receives in the traversal
Preorder(g) == SccTraversal(g).preorder

\* the smallest preorder number in each component
Discovered(g, cs) ==
    LET pre == Preorder(g)
    IN  [x \in 1..Len(cs) |->
            LET S == { pre[v] : v \in cs[x] } IN CHOOSE m \in S : \A n \in S : m <= n]

DescendingSize ==
    \A x, y \in 1..Len(Components) :
        x < y => Cardinality(Components[x]) >= Cardinality(Components[y])

Reaches(g, X, Y) == Y \subseteq SccReach(g, X)

\* C15: components come in descending size, equal sizes in the order of
\* first discovery.
C15_SizeThenFirstDiscovered ==
    SccDone =>
        LET first == Discovered(graph, Components)
        IN  /\ DescendingSize
            /\ \A x, y \in 1..Len(Components) :
                  (x < y /\ Cardinality(Components[x]) = Cardinality(Components[y]))
                     => first[x] < first[y]

\* the 3-cycle with the isolated node d gives {a,b,c} then {d}
CycleThenIsolated ==
    (graph.nodes = SccNodeIds
       /\ SccEdges(graph) = { <<"a", "b">>, <<"b", "c">>, <<"c", "a">> })
      => Components = << {"a", "b", "c"}, {"d"} >>

\* C15 as the code has it: components come in descending size; of two
\* components of equal size, one that the other reaches comes first, and two
\* that do not reach each other come in the order of first discovery; the
\* 3-cycle a->b->c->a with the isolated node d gives {a,b,c} then {d}.
C15_SizeThenCompletionOrder ==
    SccDone =>
        LET first == Discovered(graph, Components)
        IN  /\ DescendingSize
            /\ CycleThenIsolated
            /\ \A x, y \in 1..Len(Components) :
                  (x < y /\ Cardinality(Components[x]) = Cardinality(Components[y]))
                     => /\ ~Reaches(graph, Components[x], Components[y])
                        /\ ~Reaches(graph, Components[y], Components[x])
                              => first[x] < first[y]

\* a citing node a and a cited node b: {b} comes before {a}
C15_Witness ==
    /\ SccDone
    /\ graph.nodes = <<"a", "b">>
    /\ graph.edges = << <<"a", "b">> >>
    /\ Components = << {"b"}, {"a"} >>

(***************************************************************************)
(* export_graph of construir_grafo_citaciones, load_graph of               *)
(* identificar_scc, and the run build -> export -> load -> identify_scc    *)
(***************************************************************************)
\* G.edges(): for every node in insertion order, its out-edges in the order
\* they were first added
RECURSIVE EdgesIter(_, _)
EdgesIter(g, k) ==
    IF k = 0 THEN <<>>
    ELSE EdgesIter(g, k - 1) \o SelectSeq(g.order, LAMBDA e : e[1] = g.nodes[k])

\* the built DiGraph as identify_scc sees it
AsDiGraph(g) == [nodes |-> g.nodes, edges |-> EdgesIter(g, Len(g.nodes))]

\* the GraphML file (all nodes, then all edges) and the rows of the edges CSV
\* under the header source,target,weight
export_graph(g) ==
    LET es == EdgesIter(g, Len(g.nodes))
    IN  [graphml |-> [nodes |-> g.nodes, edges |-> es],
         csv     |-> [k \in 1..Len(es) |-> <<es[k][1], es[k][2], g.edges[es[k]]>>]]

AddNode(ns, v) == IF \E k \in 1..Len(ns) : ns[k] = v THEN ns ELSE Append(ns, v)

\* the CSV branch of load_graph: G.add_edge(s, t) per row, a row whose source
\* or target cell is empty skipped
RECURSIVE LoadCsv(_, _)
LoadCsv(rows, k) ==
    IF k = 0 THEN [nodes |-> <<>>, edges |-> <<>>]
    ELSE LET g == LoadCsv(rows, k - 1)
             s == rows[k][1]
             t == rows[k][2]
         IN  IF s = <<>> \/ t = <<>> THEN g
             ELSE [nodes |-> AddNode(AddNode(g.nodes, s), t),
                   edges |-> IF \E x \in 1..Len(g.edges) : g.edges[x] = <<s, t>>
                             THEN g.edges ELSE Append(g.edges, <<s, t>>)]

\* load_graph: the GraphML when the file exists, the edges CSV otherwise
load_graph(files, graphml_exists) ==
    IF graphml_exists THEN [nodes |-> files.graphml.nodes, edges |-> files.graphml.edges]
    ELSE LoadCsv(files.csv, Len(files.csv))

ExportGraph ==
    /\ pc = "built"
    /\ G.status = "ok"
    /\ content' = export_graph(G)
    /\ pc' = "exported"
    /\ UNCHANGED <<entries, title_cos, params, G, parsed, graph, query, out>>

LoadGraph ==
    /\ pc = "exported"
    /\ \E graphml_exists \in BOOLEAN :
          /\ graph' = load_graph(content, graphml_exists)
          /\ query' = [graphml |-> graphml_exists]
    /\ pc' = "graph"
    /\ UNCHANGED <<entries, title_cos, params, G, content, parsed, out>>

RoundTripNext == Build \/ ExportGraph \/ LoadGraph \/ IdentifyScc

RoundTripSpec == BuildInit /\ [][RoundTripNext]_vars

ComponentSets(cs) == { cs[k] : k \in 1..Len(cs) }

\* C16: the component sets found on the re-loaded graph, in the first run and
\* in the second, are the component sets of the graph that was built.
C16_RoundTripSameComponents ==
    (pc = "scc" /\ G # Idle) =>
        \A k \in 1..Len(out) :
            ComponentSets(out[k]) = ComponentSets(identify_scc(AsDiGraph(G)))

\* what holds of the round trip: through the GraphML the component sets are
\* those of the built graph, and a second run repeats the first
RoundTripThroughGraphML ==
    (pc = "scc" /\ G # Idle) =>
        /\ query.graphml =>
              \A k \in 1..Len(out) :
                  ComponentSets(out[k]) = ComponentSets(identify_scc(AsDiGraph(G)))
        /\ \A k \in 1..Len(out) : out[k] = out[1]

\* what the CSV keeps: the components of the nodes that have an edge
RoundTripThroughCsv ==
    (pc = "scc" /\ G # Idle /\ ~query.graphml) =>
        LET touched == { e[1] : e \in DOMAIN G.edges } \cup { e[2] : e \in DOMAIN G.edges }
        IN  ComponentSets(out[1]) =
                { c \in ComponentSets(identify_scc(AsDiGraph(G))) : c \subseteq touched }

(***************************************************************************)
(* grafo_coocurrencia: the co-occurrence graph of the fixed vocabulary     *)
(***************************************************************************)
top_terminos ==
    << <<"m", "a", "c", "h", "i", "n", "e", " ", "l", "e", "a", "r", "n", "i", "n", "g">>, <<"g", "e", "n", "e", "r", "a", "t", "i", "v", "e", " ", "m", "o", "d", "e", "l", "s">>, <<"p", "r", "o", "m", "p", "t", "i", "n", "g">>, <<"e", "t", "h", "i", "c", "s">>,
       <<"t", "r", "a", "i", "n", "i", "n", "g", " ", "d", "a", "t", "a">>, <<"f", "i", "n", "e", "-", "t", "u", "n", "i", "n", "g">>, <<"m", "u", "l", "t", "i", "m", "o", "d", "a", "l", "i", "t", "y">>, <<"t", "r", "a", "n", "s", "p", "a", "r", "e", "n", "c", "y">>,
       <<"p", "r", "i", "v", "a", "c", "y">>, <<"e", "x", "p", "l", "a", "i", "n", "a", "b", "i", "l", "i", "t", "y">>, <<"h", "u", "m", "a", "n", "-", "a", "i", " ", "i", "n", "t", "e", "r", "a", "c", "t", "i", "o", "n">>, <<"a", "i", " ", "l", "i", "t", "e", "r", "a", "c", "y">>,
       <<"c", "o", "-", "c", "r", "e", "a", "t", "i", "o", "n">>, <<"p", "e", "r", "s", "o", "n", "a", "l", "i", "z", "a", "t", "i", "o", "n">>, <<"a", "l", "g", "o", "r", "i", "t", "h", "m", "i", "c", " ", "b", "i", "a", "s">> >>

\* \b before position q of s (q = Len(s) + 1: after the last character)
WordBoundary(s, q) ==
    LET before == q > 1 /\ IsWordChar(s[q - 1])
        after  == q <= Len(s) /\ IsWordChar(s[q])
    IN  before # after

\* a search that takes any occurrence of the term
SearchAnywhere(term, s) == IsSubstr(term, s)

\* re.search(r'\b' + re.escape(term) + r'\b', s)
TermSearch(term, s) ==
    \E q \in 1..(Len(s) - Len(term) + 1) :
        /\ SubSeq(s, q, q + Len(term) - 1) = term
        /\ WordBoundary(s, q)
        /\ WordBoundary(s, q + Len(term))

\* [a.strip().lower() for a in abstracts if a.strip()]
CleanAbstracts(raw) ==
    LET kept == SelectSeq(raw, LAMBDA a : Strip(a) # <<>>)
    IN  [k \in 1..Len(kept) |-> Lower(Strip(kept[k]))]

Presentes(abstract) == SelectSeq(top_terminos, LAMBDA t : TermSearch(t, abstract))

\* itertools.combinations(presentes, 2), as the list of its pairs
RECURSIVE Combinations2(_)
Combinations2(s) ==
    IF Len(s) < 2 THEN <<>>
    ELSE [k \in 1..(Len(s) - 1) |-> <<s[1], s[k + 1]>>] \o Combinations2(Tail(s))

\* lines 34-38 for the pairs of one abstract; an edge of the undirected graph
\* is the set of its two ends
RECURSIVE AddPairs(_, _)
AddPairs(E, ps) ==
    IF ps = <<>> THEN E
    ELSE LET e == {ps[1][1], ps[1][2]}
         IN  AddPairs(IF e \in DOMAIN E THEN [E EXCEPT ![e] = E[e] + 1] ELSE Put(E, e, 1),
                      Tail(ps))

RECURSIVE CoocLoop(_, _)
CoocLoop(abstracts, k) ==
    IF k = 0 THEN <<>>
    ELSE AddPairs(CoocLoop(abstracts, k - 1), Combinations2(Presentes(abstracts[k])))

\* lines 18-38: G.add_nodes_from(top_terminos), then the loop over abstracts
cooccurrence_graph(raw) ==
    LET abstracts == CleanAbstracts(raw)
    IN  [nodes |-> top_terminos, edges |-> CoocLoop(abstracts, Len(abstracts))]

\* abstract bodies as re.findall captures them from the file
AbstractPool ==
    { <<"M", "a", "c", "h", "i", "n", "e", " ", "L", "e", "a", "r", "n", "i", "n", "g", ",", " ", "E", "T", "H", "I", "C", "S">>, <<" ", "e", "t", "h", "i", "c", "s", " ", "a", "n", "d", " ", "p", "r", "i", "v", "a", "c", "y", " ">>, <<"b", "i", "o", "e", "t", "h", "i", "c", "s", " ", "p", "r", "i", "v", "a", "c", "y">>,
      <<" ">>, <<"p", "r", "i", "v", "a", "c", "y">>, <<"e", "t", "h", "i", "c", "s", "_", "p", "r", "i", "v", "a", "c", "y", " ", "m", "a", "c", "h", "i", "n", "e", " ", " ", "l", "e", "a", "r", "n", "i", "n", "g">> }

MaxAbstracts == 3

CoocInit ==
    /\ pc = "abstracts"
    /\ \E n \in 0..MaxAbstracts : content \in [1..n -> AbstractPool]
    /\ entries = Idle /\ title_cos = Idle /\ params = Idle /\ G = Idle
    /\ parsed = Idle /\ graph = Idle /\ query = Idle /\ out = Idle

BuildCooccurrence ==
    /\ pc = "abstracts"
    /\ graph' = cooccurrence_graph(content)
    /\ pc' = "cooc"
    /\ UNCHANGED <<entries, title_cos, params, G, content, parsed, query, out>>

CoocNext == BuildCooccurrence

CoocSpec == CoocInit /\ [][CoocNext]_vars

CoocDone == pc = "cooc"

Vocabulary == { top_terminos[k] : k \in 1..Len(top_terminos) }

\* the term stands in the text with no word character before or after it
WholeWord(term, s) ==
    \E q \in 1..(Len(s) - Len(term) + 1) :
        /\ SubSeq(s, q, q + Len(term) - 1) = term
        /\ (q = 1 \/ ~IsWordChar(s[q - 1]))
        /\ (q + Len(term) > Len(s) \/ ~IsWordChar(s[q + Len(term)]))

\* the number of abstracts that hold both terms, letter case aside
CoCount(a, b) ==
    Cardinality({ k \in 1..Len(content) :
                    WholeWord(a, Lower(content[k])) /\ WholeWord(b, Lower(content[k])) })

\* C17: the nodes are exactly the vocabulary terms; two terms are joined
\* exactly when some abstract holds both as whole words, the weight is the
\* number of such abstracts, and no edge has weight 0.
C17_CooccurrenceGraph ==
    CoocDone =>
        /\ { graph.nodes[k] : k \in 1..Len(graph.nodes) } = Vocabulary
        /\ Len(graph.nodes) = Cardinality(Vocabulary)
        /\ \A e \in DOMAIN graph.edges : e \subseteq Vocabulary /\ graph.edges[e] # 0
        /\ \A a, b \in Vocabulary :
              a # b => /\ ({a, b} \in DOMAIN graph.edges) <=> (CoCount(a, b) >= 1)
                       /\ ({a, b} \in DOMAIN graph.edges) => graph.edges[{a, b}] = CoCount(a, b)

\* two abstracts hold ethics and privacy as words, a third holds privacy and
\* ethics only inside bioethics; the other terms stay without an edge
C17_Witness ==
    /\ CoocDone
    /\ \E k \in 1..Len(content) : content[k] = <<"b", "i", "o", "e", "t", "h", "i", "c", "s", " ", "p", "r", "i", "v", "a", "c", "y">>
    /\ DOMAIN graph.edges = { { <<"e", "t", "h", "i", "c", "s">>, <<"p", "r", "i", "v", "a", "c", "y">> } }
    /\ graph.edges[{ <<"e", "t", "h", "i", "c", "s">>, <<"p", "r", "i", "v", "a", "c", "y">> }] = 2
    /\ Len(graph.nodes) = 15

(***************************************************************************)
(* similarity_classical and ejecutar_algoritmos of mainReq2. A score is    *)
(* the exact fraction n/d the float arithmetic approximates.               *)
(***************************************************************************)
Val(n, d) == [present |-> TRUE, n |-> n, d |-> d]

\* an entry of the result map that is None
NoneEntry == [present |-> FALSE, n |-> 0, d |-> 1]

ValEq(x, y) == x.present = y.present /\ x.n * y.d = y.n * x.d

ValLeq(x, y) == x.n * y.d <= y.n * x.d

IsZero(x) == x.n = 0

\* the stopwords that can be spelled without an accented letter (the texts
\* compared here hold none)
STOPWORDS ==
    {
     <<"e", "l">>, <<"l", "a">>, <<"l", "o", "s">>, <<"l", "a", "s">>, <<"u", "n">>, <<"u", "n", "a">>,
      <<"u", "n", "o", "s">>, <<"u", "n", "a", "s">>, <<"d", "e">>, <<"d", "e", "l">>, <<"a", "l">>, <<"y">>,
      <<"o">>, <<"u">>, <<"q", "u", "e">>, <<"e", "n">>, <<"c", "o", "n">>, <<"p", "o", "r">>,
      <<"p", "a", "r", "a">>, <<"c", "o", "m", "o">>, <<"e", "s">>, <<"s", "o", "n">>, <<"s", "e">>, <<"s", "u">>,
      <<"s", "u", "s">>, <<"a">>, <<"e">>, <<"n", "o">>, <<"s", "i">>, <<"l", "o">>, <<"l", "e", "s">>,
      <<"l", "e">>, <<"y", "a">>, <<"m", "u", "y">>, <<"m", "e", "n", "o", "s">>, <<"e", "n", "t", "r", "e">>, <<"s", "o", "b", "r", "e">>,
      <<"p", "e", "r", "o">>, <<"s", "i", "n">>, <<"h", "a", "s", "t", "a">>, <<"d", "e", "s", "d", "e">>, <<"d", "o", "n", "d", "e">>,
      <<"c", "u", "a", "n", "d", "o">>, <<"c", "u", "a", "l">>, <<"c", "u", "a", "l", "e", "s">>, <<"p", "o", "r", "q", "u", "e">>, <<"t", "h", "e">>,
      <<"a", "n">>, <<"a", "n", "d">>, <<"o", "r">>, <<"b", "u", "t">>, <<"i", "f">>, <<"i", "n">>,
      <<"o", "n">>, <<"a", "t">>, <<"f", "o", "r">>, <<"o", "f">>, <<"t", "o">>, <<"f", "r", "o", "m">>,
      <<"b", "y">>, <<"w", "i", "t", "h">>, <<"a", "s">>, <<"i", "s">>, <<"a", "r", "e">>, <<"w", "a", "s">>,
      <<"w", "e", "r", "e">>, <<"b", "e">>, <<"b", "e", "e", "n">>, <<"b", "e", "i", "n", "g">>, <<"i", "t">>, <<"i", "t", "s">>,
      <<"t", "h", "i", "s">>, <<"t", "h", "a", "t">>, <<"t", "h", "e", "s", "e">>, <<"t", "h", "o", "s", "e">>, <<"w", "e">>,
      <<"y", "o", "u">>, <<"t", "h", "e", "y">>, <<"h", "e">>, <<"s", "h", "e">>, <<"i">>, <<"t", "h", "e", "i", "r">>,
      <<"o", "u", "r">>, <<"y", "o", "u", "r">>, <<"n", "o", "t">>, <<"y", "e", "s">>, <<"d", "o">>, <<"d", "o", "e", "s">>,
      <<"d", "i", "d">>, <<"c", "a", "n">>, <<"c", "o", "u", "l", "d">>, <<"s", "h", "o", "u", "l", "d">>, <<"w", "o", "u", "l", "d">>,
      <<"m", "a", "y">>, <<"m", "i", "g", "h", "t">>, <<"t", "h", "a", "n">>, <<"t", "h", "e", "n">>, <<"t", "h", "e", "r", "e">>,
      <<"h", "e", "r", "e">>, <<"a", "l", "s", "o">>, <<"m", "o", "r", "e">>, <<"m", "o", "s", "t">>, <<"l", "e", "s", "s">> }

\* re.sub(r'[^a-z..0-9\s]', '', texto.lower()).strip()
limpiarTexto(texto) ==
    Strip(SelectSeq(Lower(texto),
                    LAMBDA c : c \in { LowerCase[k] : k \in 1..26 } \cup Digits \/ IsSpace(c)))

\* the maximal runs of non-space characters: str.split(), and on a cleaned
\* text re.findall(r"[a-z..0-9]+")
RECURSIVE WordSet(_)
WordSet(s) ==
    IF s = <<>> THEN {}
    ELSE IF IsSpace(Head(s)) THEN WordSet(Tail(s))
    ELSE LET ends == { k \in 1..Len(s) : IsSpace(s[k]) }
             k    == IF ends = {} THEN Len(s) + 1 ELSE CHOOSE x \in ends : \A y \in ends : x <= y
         IN  {SubSeq(s, 1, k - 1)} \cup WordSet(SubSeq(s, k, Len(s)))

_tokens(texto) ==
    IF texto = <<>> THEN {} ELSE WordSet(limpiarTexto(texto)) \ STOPWORDS

\* one row of the edit-distance table, cells 0..j
RECURSIVE RowFill(_, _, _, _)
RowFill(prev, ch, b, j) ==
    IF j = 0 THEN << prev[1] + 1 >>
    ELSE LET r == RowFill(prev, ch, b, j - 1)
         IN  Append(r, Min2(Min2(r[j] + 1, prev[j + 1] + 1),
                            prev[j] + (IF ch = b[j] THEN 0 ELSE 1)))

RECURSIVE LevRows(_, _, _)
LevRows(a, b, i) ==
    IF i = 0 THEN [k \in 1..(Len(b) + 1) |-> k - 1]
    ELSE RowFill(LevRows(a, b, i - 1), a[i], b, Len(b))

\* Levenshtein.distance
Distance(a, b) == LevRows(a, b, Len(a))[Len(b) + 1]

\* round(n/d, 3) in thousandths, half to even
Round3(n, d) ==
    LET q == (1000 * n) \div d
        r == (1000 * n) % d
    IN  IF 2 * r > d THEN q + 1
        ELSE IF 2 * r < d THEN q
        ELSE IF q % 2 = 0 THEN q ELSE q + 1

\* a Levenshtein similarity measured against the first text's length only
levenshtein_by_first_length(texto1, texto2) ==
    IF texto1 = <<>> \/ texto2 = <<>> THEN Val(0, 1)
    ELSE Val(Round3(Max2(0, Len(texto1) - Distance(texto1, texto2)), Len(texto1)), 1000)

levenshtein_similarity(texto1, texto2) ==
    IF texto1 = <<>> \/ texto2 = <<>> THEN Val(0, 1)
    ELSE LET max_len == Max2(Len(texto1), Len(texto2))
         IN  Val(Round3(max_len - Distance(texto1, texto2), max_len), 1000)

\* inter / union of two word sets, 0.0 when one is empty
JaccardOf(t1, t2) ==
    IF t1 = {} \/ t2 = {} THEN Val(0, 1)
    ELSE Val(Cardinality(t1 \cap t2), Cardinality(t1 \cup t2))

jaccard_similarity(texto1, texto2) ==
    LET t1 == _tokens(texto1)
        t2 == _tokens(texto2)
    IN  IF t1 = {} \/ t2 = {} THEN Val(0, 1)
        ELSE IF ~IsZero(JaccardOf(t1, t2)) THEN JaccardOf(t1, t2)
        ELSE JaccardOf(WordSet(limpiarTexto(texto1)), WordSet(limpiarTexto(texto2)))

\* 2 * inter / (len + len) of two word sets, 0.0 when one is empty
DiceOf(t1, t2) ==
    IF t1 = {} \/ t2 = {} THEN Val(0, 1)
    ELSE Val(2 * Cardinality(t1 \cap t2), Cardinality(t1) + Cardinality(t2))

dice_similarity(texto1, texto2) ==
    LET t1 == _tokens(texto1)
        t2 == _tokens(texto2)
    IN  IF t1 = {} \/ t2 = {} THEN Val(0, 1)
        ELSE IF ~IsZero(DiceOf(t1, t2)) THEN DiceOf(t1, t2)
        ELSE DiceOf(WordSet(limpiarTexto(texto1)), WordSet(limpiarTexto(texto2)))

_char_ngrams(s, n) ==
    IF s = <<>> THEN {}
    ELSE LET t == Lower(Strip(s))
         IN  IF Len(t) < n THEN {t}
             ELSE { SubSeq(t, i, i + n - 1) : i \in 1..(Len(t) - n + 1) }

jaccard_char_ngrams(texto1, texto2, n) ==
    JaccardOf(_char_ngrams(texto1, n), _char_ngrams(texto2, n))

dice_char_ngrams(texto1, texto2, n) ==
    DiceOf(_char_ngrams(texto1, n), _char_ngrams(texto2, n))

overlap_coefficient(texto1, texto2) ==
    LET a == _tokens(texto1)
        b == _tokens(texto2)
    IN  IF a = {} \/ b = {} THEN Val(0, 1)
        ELSE Val(Cardinality(a \cap b), Min2(Cardinality(a), Cardinality(b)))

\* the first loop of _jaro_distance from position i on: the matched
\* positions of s1 and of s2
RECURSIVE JaroMatches(_, _, _, _, _)
JaroMatches(s1, s2, max_dist, i, acc) ==
    IF i > Len(s1) THEN acc
    ELSE LET js == { j \in Max2(1, i - max_dist)..Min2(i + max_dist, Len(s2)) :
                        j \notin acc.hash_s2 /\ s1[i] = s2[j] }
         IN  IF js = {} THEN JaroMatches(s1, s2, max_dist, i + 1, acc)
             ELSE JaroMatches(s1, s2, max_dist, i + 1,
                      [hash_s1 |-> acc.hash_s1 \cup {i},
                       hash_s2 |-> acc.hash_s2 \cup {CHOOSE j \in js : \A x \in js : j <= x}])

\* the k-th smallest member of a set of positions
KthOf(S, k) == CHOOSE x \in S : Cardinality({ y \in S : y < x }) = k - 1

_jaro_distance(s1, s2) ==
    IF s1 = s2 THEN Val(1, 1)
    ELSE IF Len(s1) = 0 \/ Len(s2) = 0 THEN Val(0, 1)
    ELSE LET max_dist == (Max2(Len(s1), Len(s2)) \div 2) - 1
             mt       == JaroMatches(s1, s2, max_dist, 1, [hash_s1 |-> {}, hash_s2 |-> {}])
             match    == Cardinality(mt.hash_s1)
             t        == Cardinality({ k \in 1..match :
                                         s1[KthOf(mt.hash_s1, k)] # s2[KthOf(mt.hash_s2, k)] })
         IN  IF match = 0 THEN Val(0, 1)
             ELSE Val(2 * match * match * Len(s2) + 2 * match * match * Len(s1)
                        + (2 * match - t) * Len(s1) * Len(s2),
                      6 * match * Len(s1) * Len(s2))

\* the length of the common prefix of s1[:4] and s2[:4]
RECURSIVE CommonPrefix(_, _, _)
CommonPrefix(s1, s2, k) ==
    IF k > 4 \/ k > Len(s1) \/ k > Len(s2) THEN 0
    ELSE IF s1[k] = s2[k] THEN 1 + CommonPrefix(s1, s2, k + 1) ELSE 0

\* jaro + l * p * (1 - jaro) with p = 0.1
jaro_winkler_similarity(texto1, texto2) ==
    LET s1   == Lower(Strip(texto1))
        s2   == Lower(Strip(texto2))
        jaro == _jaro_distance(s1, s2)
        l    == CommonPrefix(s1, s2, 1)
    IN  Val(10 * jaro.n + l * (jaro.d - jaro.n), 10 * jaro.d)

_heuristic_char_n(a, b) ==
    LET m == Min2(Len(Strip(a)), Len(Strip(b)))
    IN  IF m <= 2 THEN 1 ELSE IF m <= 4 THEN 2 ELSE 3

\* the retry that keeps the first n whichever score it reports
CharFallbackKeepN(first, second, last, n) ==
    IF IsZero(first) /\ n > 1
    THEN IF ~IsZero(second) THEN [score |-> second, n |-> n]
         ELSE IF ~IsZero(last) THEN [score |-> last, n |-> n]
         ELSE [score |-> first, n |-> n]
    ELSE [score |-> first, n |-> n]

\* lines 308-315 and 320-327: the score with n (first), and when that is 0.0
\* and n > 1 the first positive score among those with n-1 (second) and with
\* 1 (last), with the n that gave it
CharFallback(first, second, last, n) ==
    IF IsZero(first) /\ n > 1
    THEN IF ~IsZero(second) THEN [score |-> second, n |-> Max2(1, n - 1)]
         ELSE IF ~IsZero(last) THEN [score |-> last, n |-> 1]
         ELSE [score |-> first, n |-> n]
    ELSE [score |-> first, n |-> n]

\* lines 344-352: an overlap of 0.0 recomputed on text.lower().split()
OverlapFallback(ov, text1, text2) ==
    LET r1 == WordSet(Lower(text1))
        r2 == WordSet(Lower(text2))
    IN  IF IsZero(ov) /\ r1 # {} /\ r2 # {}
        THEN Val(Cardinality(r1 \cap r2), Min2(Cardinality(r1), Cardinality(r2)))
        ELSE ov

\* the result map; ext holds what scikit-learn and the sentence model return
\* _simple_tokens: the positions where a run of word characters starts, one
\* for each match of re.findall(r"\w+", s.lower())
_simple_tokens(s) ==
    { k \in 1..Len(s) : IsWordChar(s[k]) /\ (k = 1 \/ ~IsWordChar(s[k - 1])) }

short_texts(text1, text2) ==
    Cardinality(_simple_tokens(text1)) < 3 /\ Cardinality(_simple_tokens(text2)) < 3

\* The outcomes of the calls into sklearn and sentence_transformers are
\* inputs, held in a record lib: each TF-IDF attempt either raises
\* (NoneEntry) or gives a number; an attempt of weighted_jaccard_tfidf gives
\* the pair num / den, den = 0 included.
\* "for n_try in (n_char, max(1, n_char - 1), 1)" of the cosine entry
RECURSIVE CosineRetry(_, _, _)
CosineRetry(lib, tries, k) ==
    IF k > Len(tries) THEN lib.cosine_word
    ELSE LET ct_char == lib.cosine_char[tries[k]]
         IN  IF ~ct_char.present THEN NoneEntry
             ELSE IF ct_char.n > 0 THEN ct_char
             ELSE CosineRetry(lib, tries, k + 1)

\* resultados["cosine_tfidf"]
CosineEntry(text1, text2, lib) ==
    LET n_char == _heuristic_char_n(text1, text2)
    IN  IF short_texts(text1, text2) THEN lib.cosine_char[n_char]
        ELSE IF ~lib.cosine_word.present THEN NoneEntry
        ELSE IF ~IsZero(lib.cosine_word) THEN lib.cosine_word
        ELSE CosineRetry(lib, <<n_char, Max2(1, n_char - 1), 1>>, 1)

\* the ladder as a reader may expect it: the first attempt above zero
weighted_jaccard_first_positive(lib) ==
    IF lib.wj_word.present /\ lib.wj_word.n > 0 /\ lib.wj_word.d > 0 THEN lib.wj_word
    ELSE IF lib.wj_char[3].present /\ lib.wj_char[3].n > 0 /\ lib.wj_char[3].d > 0 THEN lib.wj_char[3]
    ELSE IF lib.wj_char[2].present /\ lib.wj_char[2].n > 0 /\ lib.wj_char[2].d > 0 THEN lib.wj_char[2]
    ELSE Val(0, 1)

weighted_jaccard_tfidf(lib) ==
    IF lib.wj_word.present /\ lib.wj_word.d # 0 THEN lib.wj_word
    ELSE IF lib.wj_char[3].present /\ lib.wj_char[3].d > 0 THEN lib.wj_char[3]
    ELSE IF lib.wj_char[2].present /\ lib.wj_char[2].d > 0 THEN lib.wj_char[2]
    ELSE Val(0, 1)

\* the semantic entry when the value of AI_OK is not looked at
SemanticEntryAlways(lib) == lib.semantic

\* resultados["semantic_sbert"]: None without the import, None when the call
\* raises
SemanticEntry(lib) == IF lib.AI_OK THEN lib.semantic ELSE NoneEntry

ejecutar_algoritmos(text1, text2, lib) ==
    LET n0 == _heuristic_char_n(text1, text2)
        jc == CharFallback(jaccard_char_ngrams(text1, text2, n0),
                           jaccard_char_ngrams(text1, text2, Max2(1, n0 - 1)),
                           jaccard_char_ngrams(text1, text2, 1), n0)
        dc == CharFallback(dice_char_ngrams(text1, text2, jc.n),
                           dice_char_ngrams(text1, text2, Max2(1, jc.n - 1)),
                           dice_char_ngrams(text1, text2, 1), jc.n)
    IN  [levenshtein            |-> levenshtein_similarity(text1, text2),
         jaccard                |-> jaccard_similarity(text1, text2),
         cosine_tfidf           |-> CosineEntry(text1, text2, lib),
         dice                   |-> dice_similarity(text1, text2),
         overlap_coeff          |-> OverlapFallback(overlap_coefficient(text1, text2), text1, text2),
         weighted_jaccard_tfidf |-> weighted_jaccard_tfidf(lib),
         jaro_winkler           |-> jaro_winkler_similarity(text1, text2),
         jaccard_char           |-> jc.score,
         dice_char              |-> dc.score,
         semantic_sbert         |-> SemanticEntry(lib),
         char_ngram_n           |-> dc.n]

\* the cosine and the weighted Jaccard of two TF-IDF rows (no negative
\* entries) lie between 0 and 1
TfidfValues == { Val(0, 1), Val(1, 2), Val(1, 1) }

\* semantic_similarity returns the cosine of two embedding vectors, unclamped:
\* any value between -1 and 1
SemanticValues == { Val(-1, 4), Val(0, 1), Val(1, 2), Val(1, 1) }

\* libraries whose TF-IDF attempts all have the same outcome; semantic is the
\* outcome of semantic_similarity, NoneEntry when it raises
Externals ==
    { [cosine_word |-> c, cosine_char |-> [n \in 1..3 |-> c],
       wj_word |-> w, wj_char |-> [n \in 2..3 |-> w],
       AI_OK |-> ok, semantic |-> sem] :
         c \in TfidfValues \cup {NoneEntry}, w \in { Val(0, 1), Val(1, 1) },
         ok \in BOOLEAN, sem \in SemanticValues \cup {NoneEntry} }

TextPool ==
    { <<>>, <<" ">>, <<"t", "h", "e">>, <<"!", "!">>, <<"a", "b">>, <<"b", "a">>, <<" ", "a", "b", " ">>, <<"T", "h", "e", " ", "a", "b">>, <<"a", "b", " ", "c", "d">>,
      <<"c", "d", " ", "a", "b">>, <<"t", "h", "e", " ", "c", "d">>, <<"a", " ", "b">>, <<"a", "b", "c", "d">>, <<"a", "b", "d", "c">>, <<"a", "b", "c", "d", "e", "f">>, <<"f", "e", "d", "c", "b", "a">>, <<"a", "b", "!">> }

SimInit ==
    /\ pc = "texts"
    /\ query \in [text1 : TextPool, text2 : TextPool, lib : Externals]
    /\ entries = Idle /\ title_cos = Idle /\ params = Idle /\ G = Idle
    /\ content = Idle /\ parsed = Idle /\ graph = Idle /\ out = Idle

EjecutarAlgoritmos ==
    /\ pc = "texts"
    /\ out' = ejecutar_algoritmos(query.text1, query.text2, query.lib)
    /\ pc' = "scores"
    /\ UNCHANGED <<entries, title_cos, params, G, content, parsed, graph, query>>

SimNext == EjecutarAlgoritmos

SimSpec == SimInit /\ [][SimNext]_vars

(***************************************************************************)
(* Claims about the similarity scores                                      *)
(***************************************************************************)
SimDone == pc = "scores"

\* the six metrics of C18 and C19
SixMetrics(r) ==
    << r.levenshtein, r.jaccard, r.dice, r.jaccard_char, r.dice_char, r.jaro_winkler >>

IsOne(x) == x.present /\ x.n = x.d

\* C18: for a non-empty string compared with itself, levenshtein, jaccard,
\* dice, jaccard_char, dice_char and jaro_winkler are all 1.0.
C18_IdentityScoresOne ==
    (SimDone /\ query.text1 = query.text2 /\ query.text1 # <<>>) =>
        \A k \in 1..6 : IsOne(SixMetrics(out)[k])

\* what holds: levenshtein, jaccard_char, dice_char and jaro_winkler are 1.0
\* for every non-empty string, jaccard and dice whenever the string keeps a
\* token that is not a stopword
IdentityScoresOneWithTokens ==
    (SimDone /\ query.text1 = query.text2 /\ query.text1 # <<>>) =>
        /\ IsOne(out.levenshtein) /\ IsOne(out.jaccard_char)
        /\ IsOne(out.dice_char) /\ IsOne(out.jaro_winkler)
        /\ _tokens(query.text1) # {} => IsOne(out.jaccard) /\ IsOne(out.dice)
        /\ _tokens(query.text1) = {} => IsZero(out.jaccard) /\ IsZero(out.dice)

\* C19: each of the six metrics gives (a, b) the score it gives (b, a).
C19_Symmetric ==
    SimDone =>
        LET back == ejecutar_algoritmos(query.text2, query.text1, query.lib)
        IN  \A k \in 1..6 : ValEq(SixMetrics(out)[k], SixMetrics(back)[k])

\* two texts of different lengths with a transposition between them, scored
\* above 0 and below 1 by the edit distance and by Jaro-Winkler
C19_Witness ==
    /\ SimDone
    /\ query.text1 = <<"a", "b", "d", "c">>
    /\ query.text2 = <<"a", "b", "c", "d", "e", "f">>
    /\ ~IsZero(out.levenshtein) /\ ~IsOne(out.levenshtein)
    /\ ~IsZero(out.jaro_winkler) /\ ~IsOne(out.jaro_winkler)
    /\ ~IsZero(out.jaccard_char)

Metrics(r) ==
    { r.levenshtein, r.jaccard, r.cosine_tfidf, r.dice, r.overlap_coeff,
      r.weighted_jaccard_tfidf, r.jaro_winkler, r.jaccard_char, r.dice_char,
      r.semantic_sbert }

InUnitInterval(x) == ValLeq(Val(0, 1), x) /\ ValLeq(x, Val(1, 1))

\* C20: every metric entry of the result map that is not None, the semantic
\* one included, is a number in [0,1].
C20_ScoresInUnitInterval ==
    SimDone => \A x \in Metrics(out) : x.present => InUnitInterval(x)

\* what holds: every entry but the semantic one is in [0,1]
ClassicalScoresInUnitInterval ==
    SimDone => \A x \in Metrics(out) \ {out.semantic_sbert} : x.present => InUnitInterval(x)

\* an input that is empty or made of whitespace only
Blank(text) == Strip(text) = <<>>

\* the entries of the result map that the repository's own code computes
\* from the two texts alone
ComputedMetrics(r) ==
    { r.levenshtein, r.jaccard, r.dice, r.overlap_coeff, r.jaro_winkler,
      r.jaccard_char, r.dice_char }

\* C21: whenever one of the two inputs is empty or only whitespace, every
\* metric of the result map is 0.0 or None (stated here for the entries the
\* code computes itself, which the claim includes).
C21_BlankInputScoresZero ==
    (SimDone /\ (Blank(query.text1) \/ Blank(query.text2))) =>
        \A x \in ComputedMetrics(out) : ~x.present \/ IsZero(x)

\* what holds: with an empty input jaccard, dice and overlap_coeff are 0.0,
\* and every computed entry but levenshtein is 0.0 when exactly one input is
\* blank
EmptyInputTokenScoresZero ==
    (SimDone /\ (Blank(query.text1) \/ Blank(query.text2))) =>
        /\ IsZero(out.jaccard) /\ IsZero(out.dice) /\ IsZero(out.overlap_coeff)
        /\ (Blank(query.text1) # Blank(query.text2)) =>
              \A x \in ComputedMetrics(out) \ {out.levenshtein} : IsZero(x)

\* the entries of a result map other than the semantic one
OtherEntries(r) ==
    << r.levenshtein, r.jaccard, r.cosine_tfidf, r.dice, r.overlap_coeff,
       r.weighted_jaccard_tfidf, r.jaro_winkler, r.jaccard_char, r.dice_char,
       r.char_ngram_n >>

SemanticFails == ~query.lib.AI_OK \/ ~query.lib.semantic.present

\* C22: when the import of semantic_similarity failed or its call raises, the
\* semantic entry is None and every other entry is the one reported when the
\* capability is present, whatever score it then gives.
C22_SemanticFailureIsolated ==
    (SimDone /\ SemanticFails) =>
        /\ out.semantic_sbert = NoneEntry
        /\ \A sem \in SemanticValues :
              LET with == ejecutar_algoritmos(query.text1, query.text2,
                              [query.lib EXCEPT !.AI_OK = TRUE, !.semantic = sem])
              IN  /\ with.semantic_sbert = sem
                  /\ OtherEntries(out) = OtherEntries(with)

\* C22 witness: a result computed without the import, the call itself able to
\* give a score, with the classical entries above zero
C22_Witness ==
    /\ SimDone
    /\ ~query.lib.AI_OK /\ query.lib.semantic.present
    /\ out.semantic_sbert = NoneEntry
    /\ ~IsZero(out.levenshtein) /\ ~IsZero(out.jaccard) /\ ~IsZero(out.jaro_winkler)
    /\ out.cosine_tfidf.present /\ ~IsZero(out.cosine_tfidf)

\* the raw tokens the fallbacks of jaccard and dice use, and those the
\* fallback of overlap_coeff uses
RawTokens(text) == WordSet(limpiarTexto(text))

RawSplit(text) == WordSet(Lower(text))

OverlapOf(a, b) ==
    IF a = {} \/ b = {} THEN Val(0, 1)
    ELSE Val(Cardinality(a \cap b), Min2(Cardinality(a), Cardinality(b)))

\* C25: whenever the score over the tokens without stopwords is 0, jaccard,
\* dice and overlap_coeff report the score over the raw tokens, so texts that
\* share only stopwords get a score above zero.
C25_RawTokenFallback ==
    SimDone =>
        LET d1 == _tokens(query.text1)
            d2 == _tokens(query.text2)
        IN  /\ IsZero(JaccardOf(d1, d2)) =>
                  ValEq(out.jaccard, JaccardOf(RawTokens(query.text1), RawTokens(query.text2)))
            /\ IsZero(DiceOf(d1, d2)) =>
                  ValEq(out.dice, DiceOf(RawTokens(query.text1), RawTokens(query.text2)))
            /\ IsZero(OverlapOf(d1, d2)) =>
                  ValEq(out.overlap_coeff, OverlapOf(RawSplit(query.text1), RawSplit(query.text2)))

\* what holds: overlap_coeff always falls back; jaccard and dice fall back
\* only when both texts keep a token that is not a stopword
RawTokenFallbackWithTokens ==
    SimDone =>
        LET d1 == _tokens(query.text1)
            d2 == _tokens(query.text2)
        IN  /\ (IsZero(JaccardOf(d1, d2)) /\ d1 # {} /\ d2 # {}) =>
                  /\ ValEq(out.jaccard, JaccardOf(RawTokens(query.text1), RawTokens(query.text2)))
                  /\ ValEq(out.dice, DiceOf(RawTokens(query.text1), RawTokens(query.text2)))
            /\ (d1 = {} \/ d2 = {}) => IsZero(out.jaccard) /\ IsZero(out.dice)
            /\ IsZero(OverlapOf(d1, d2)) =>
                  ValEq(out.overlap_coeff, OverlapOf(RawSplit(query.text1), RawSplit(query.text2)))

\* the fallback at work: two texts with different kept tokens and a shared
\* stopword
RawTokenFallbackSeen ==
    /\ SimDone
    /\ _tokens(query.text1) # {} /\ _tokens(query.text2) # {}
    /\ _tokens(query.text1) \cap _tokens(query.text2) = {}
    /\ ~IsZero(out.jaccard) /\ ~IsZero(out.dice) /\ ~IsZero(out.overlap_coeff)

\* the starting size of C26, from the shorter stripped text
StartN ==
    LET m == Min2(Len(Strip(query.text1)), Len(Strip(query.text2)))
    IN  IF m <= 2 THEN 1 ELSE IF m <= 4 THEN 2 ELSE 3

\* the sizes tried, in order
SizesTried == << StartN, Max2(1, StartN - 1), 1 >>

\* the first of the sizes tried whose Jaccard score is above zero, the
\* starting size when there is none
SizeUsed ==
    LET pos == { k \in 1..3 : ~IsZero(jaccard_char_ngrams(query.text1, query.text2, SizesTried[k])) }
    IN  IF pos = {} THEN StartN
        ELSE SizesTried[CHOOSE k \in pos : \A x \in pos : k <= x]

\* C26: n starts at 1, 2 or 3 by the length of the shorter stripped text,
\* jaccard_char and dice_char are retried at n-1 and then 1 while the score
\* is 0, and char_ngram_n is the size both reported values were computed at.
C26_CharNgramSize ==
    SimDone =>
        /\ out.char_ngram_n = SizeUsed
        /\ out.jaccard_char = jaccard_char_ngrams(query.text1, query.text2, out.char_ngram_n)
        /\ out.dice_char = dice_char_ngrams(query.text1, query.text2, out.char_ngram_n)
        /\ (IsZero(out.jaccard_char) \/ IsZero(out.dice_char)) =>
              \A k \in 1..3 :
                  /\ IsZero(jaccard_char_ngrams(query.text1, query.text2, SizesTried[k]))
                  /\ IsZero(dice_char_ngrams(query.text1, query.text2, SizesTried[k]))

\* C26 witness: two texts of six characters with no common trigram and no
\* common bigram, scored at n = 1
C26_Witness ==
    /\ SimDone
    /\ StartN = 3
    /\ out.char_ngram_n = 1
    /\ ~IsZero(out.jaccard_char) /\ ~IsZero(out.dice_char)

\* the retry stopping at n - 1
CharNgramSizeTwoSeen ==
    SimDone /\ StartN = 3 /\ out.char_ngram_n = 2 /\ ~IsZero(out.jaccard_char)

(***************************************************************************)
(* The fallback ladders of cosine_tfidf and weighted_jaccard_tfidf: the    *)
(* same call, over libraries whose attempts have outcomes of their own     *)
(***************************************************************************)
\* the character cosine at n raises, is 0.0 or is n/4
CosineCharOutcomes ==
    { f \in [1..3 -> {NoneEntry, Val(0, 1), Val(1, 4), Val(2, 4), Val(3, 4)}] :
        \A n \in 1..3 : f[n] \in {NoneEntry, Val(0, 1), Val(n, 4)} }

\* an attempt of weighted_jaccard_tfidf raises, has den = 0, or gives 0 or
\* 1/n over a positive den
WjCharOutcomes ==
    { f \in [2..3 -> {NoneEntry, Val(0, 0), Val(0, 1), Val(1, 2), Val(1, 3)}] :
        \A n \in 2..3 : f[n] \in {NoneEntry, Val(0, 0), Val(0, 1), Val(1, n)} }

LadderLibraries ==
    [cosine_word : {NoneEntry, Val(0, 1), Val(1, 1)},
     cosine_char : CosineCharOutcomes,
     wj_word : {NoneEntry, Val(0, 0), Val(0, 1), Val(1, 1)},
     wj_char : WjCharOutcomes,
     AI_OK : {FALSE},
     semantic : {NoneEntry}]

\* one or three word tokens, two, four, six and eight characters
LadderTexts == { <<"a", "b">>, <<"a", "b", "c", "d">>, <<"a", "b", "c", "d", "e", "f">>, <<"a", "b", " ", "c", "d", " ", "e", "f">> }

LadderInit ==
    /\ pc = "texts"
    /\ query \in [text1 : LadderTexts, text2 : LadderTexts, lib : LadderLibraries]
    /\ entries = Idle /\ title_cos = Idle /\ params = Idle /\ G = Idle
    /\ content = Idle /\ parsed = Idle /\ graph = Idle /\ out = Idle

LadderSpec == LadderInit /\ [][SimNext]_vars

\* the attempts of the two ladders in the order C27 gives them
CosineLadder ==
    LET n == StartN
    IN  << query.lib.cosine_word, query.lib.cosine_char[n],
           query.lib.cosine_char[Max2(1, n - 1)], query.lib.cosine_char[1] >>

WjLadder == << query.lib.wj_word, query.lib.wj_char[3], query.lib.wj_char[2] >>

Raised(a) == ~a.present

Usable(a) == a.present /\ a.d > 0

Positive(a) == Usable(a) /\ a.n > 0

FirstIn(S) == CHOOSE k \in S : \A x \in S : k <= x

\* the value C27 gives a ladder: that of its first strictly positive
\* attempt, 0 when it has none
FirstPositiveValue(ladder) ==
    LET pos == { k \in 1..Len(ladder) : Positive(ladder[k]) }
    IN  IF pos = {} THEN Val(0, 1) ELSE ladder[FirstIn(pos)]

\* C27 (as claimed): cosine_tfidf and weighted_jaccard_tfidf report the value
\* of the first attempt of their ladder that is strictly positive, and 0 only
\* when no attempt is (checked where no attempt raises).
C27_FirstPositiveAttempt ==
    (SimDone /\ (\A k \in 1..4 : ~Raised(CosineLadder[k]))
             /\ (\A k \in 1..3 : ~Raised(WjLadder[k]))) =>
        /\ out.cosine_tfidf.present /\ out.weighted_jaccard_tfidf.present
        /\ ValEq(out.cosine_tfidf, FirstPositiveValue(CosineLadder))
        /\ ValEq(out.weighted_jaccard_tfidf, FirstPositiveValue(WjLadder))

\* C27 (amended): between two texts of fewer than three word tokens each the
\* cosine entry is the character cosine at n alone; otherwise it is the word
\* cosine when that is not 0, else the outcome of the first character attempt
\* (n, n-1, 1) that raises or is strictly positive, else 0; it is None when an
\* attempt made raises.  weighted_jaccard_tfidf is the value, 0 included, of
\* the first attempt (words, 3-grams, 2-grams) that does not raise and has a
\* positive denominator, and 0 when there is none.
C27_LaddersAsCoded ==
    SimDone =>
        LET cos  == CosineLadder
            stop == { k \in 2..4 : Raised(cos[k]) \/ Positive(cos[k]) }
            wj   == WjLadder
            use  == { k \in 1..3 : Usable(wj[k]) }
        IN  /\ short_texts(query.text1, query.text2) => out.cosine_tfidf = cos[2]
            /\ (~short_texts(query.text1, query.text2) /\ (Raised(cos[1]) \/ Positive(cos[1])))
                   => out.cosine_tfidf = cos[1]
            /\ (~short_texts(query.text1, query.text2) /\ ~Raised(cos[1]) /\ ~Positive(cos[1]))
                   => IF stop = {} THEN out.cosine_tfidf.present /\ IsZero(out.cosine_tfidf)
                      ELSE out.cosine_tfidf = cos[FirstIn(stop)]
            /\ IF use = {} THEN out.weighted_jaccard_tfidf = Val(0, 1)
               ELSE out.weighted_jaccard_tfidf = wj[FirstIn(use)]

\* C27 witness: a word cosine of 0 and a character cosine of 0 at n = 3, the
\* cosine taken at n = 2; a word attempt of weighted_jaccard_tfidf worth 0
\* over a positive denominator, reported although the 3-gram attempt is above
\* zero.
C27_Witness ==
    /\ SimDone
    /\ ~short_texts(query.text1, query.text2) /\ StartN = 3
    /\ query.lib.cosine_word = Val(0, 1) /\ query.lib.cosine_char[3] = Val(0, 1)
    /\ Positive(query.lib.cosine_char[2]) /\ out.cosine_tfidf = query.lib.cosine_char[2]
    /\ query.lib.wj_word = Val(0, 1) /\ Positive(query.lib.wj_char[3])
    /\ IsZero(out.weighted_jaccard_tfidf)

(***************************************************************************)
(* Claims about the scored edges of the citation graph                     *)
(***************************************************************************)
\* explicit is False for the pair (i, j)
NoExplicit(i, j) == ~Explicit(entries[i], entries[j], DoiMap(entries, Len(entries)))

\* shared last names over the size of the smaller last-name set, in 1/10000
SharedLastnames(i, j) ==
    LET A == AuthorLastnames(entries[i])
        B == AuthorLastnames(entries[j])
        m == IF Cardinality(A) <= Cardinality(B) THEN Cardinality(A) ELSE Cardinality(B)
    IN  IF A = {} \/ B = {} THEN 0 ELSE (Cardinality(A \cap B) * 10000) \div m

\* title_weight * title cosine + author_weight * author overlap, in 1/1000000
Fused(i, j) ==
    params.title_weight * CosSim(entries, title_cos, i, j)
        + params.author_weight * SharedLastnames(i, j)

\* the two conditions of C23 on a pair
Passes(i, j) ==
    /\ CosSim(entries, title_cos, i, j) >= params.title_threshold * 100
    /\ Fused(i, j) >= params.sim_threshold * 10000

\* a pair of records other than (i, j) that carries the same two keys
OtherWriter(i, j) ==
    \E q \in Pairs :
        /\ q # <<i, j>>
        /\ entries[q[1]].bibkey = entries[i].bibkey
        /\ entries[q[2]].bibkey = entries[j].bibkey

\* C23 (as claimed): for distinct records i, j without explicit evidence the
\* edge i->j is in the graph if and only if the title cosine reaches
\* title_threshold and the fused score reaches sim_threshold, and its weight
\* equals the fused score.
C23_EdgeIffFusedScore ==
    Built => \A q \in Pairs :
                (NoExplicit(q[1], q[2]) /\ ~OtherWriter(q[1], q[2])) =>
                    /\ HasEdge(q[1], q[2]) <=> Passes(q[1], q[2])
                    /\ HasEdge(q[1], q[2]) => EdgeWeight(q[1], q[2]) * 100 = Fused(q[1], q[2])

\* C23 (amended): a pair without explicit evidence that meets both conditions
\* has its edge in the graph; when no other pair of records carries the same
\* two keys the edge is there only if the pair meets them; and unless a later
\* pair with the same keys rewrote it the weight is the fused score rounded to
\* four decimals.
C23_EdgeIffFusedScoreRounded ==
    Built => \A q \in Pairs :
                NoExplicit(q[1], q[2]) =>
                    /\ Passes(q[1], q[2]) => HasEdge(q[1], q[2])
                    /\ (HasEdge(q[1], q[2]) /\ ~OtherWriter(q[1], q[2])) => Passes(q[1], q[2])
                    /\ (Passes(q[1], q[2]) /\ ~LaterWriter(q[1], q[2])) =>
                          /\ EdgeWeight(q[1], q[2]) * 100 - 50 <= Fused(q[1], q[2])
                          /\ Fused(q[1], q[2]) <= EdgeWeight(q[1], q[2]) * 100 + 50

\* C23 witness: an edge scored from title and authors, the only one written
\* for its two keys, whose fused score has more than four decimals and was
\* rounded up.
C23_Witness ==
    /\ Built
    /\ \E q \in Pairs :
          /\ NoExplicit(q[1], q[2]) /\ ~OtherWriter(q[1], q[2])
          /\ Passes(q[1], q[2]) /\ HasEdge(q[1], q[2])
          /\ AuthorLastnames(entries[q[1]]) \cap AuthorLastnames(entries[q[2]]) # {}
          /\ EdgeWeight(q[1], q[2]) * 100 > Fused(q[1], q[2])

\* a candidate pair without explicit evidence whose fused score is below
\* sim_threshold and which has no edge
FailingPairSeen ==
    /\ Built
    /\ \E q \in Pairs :
          /\ NoExplicit(q[1], q[2]) /\ ~OtherWriter(q[1], q[2])
          /\ Candidate(entries, title_cos, params, q[1], q[2])
          /\ ~Passes(q[1], q[2]) /\ ~HasEdge(q[1], q[2])

\* the score line 190-200 gives the pair (i, j), in 1/1000000
PairScore(i, j) == Score(entries, title_cos, params, DoiMap(entries, Len(entries)), i, j)

\* the four occurrences C24 counts as explicit evidence
KeyInReferences(i, j) == IsSubstr(entries[j].bibkey, entries[i].references_raw)

KeyInRawEntry(i, j) == IsSubstr(entries[j].bibkey, entries[i].raw_entry)

DoiInReferences(i, j) ==
    entries[j].doi # <<>> /\ IsSubstr(entries[j].doi, entries[i].references_raw)

DoiInRawEntry(i, j) ==
    entries[j].doi # <<>> /\ IsSubstr(entries[j].doi, entries[i].raw_entry)

\* C24 (as claimed): a candidate pair has the score 1.0 whenever the target's
\* key or DOI occurs literally in the source's references_raw or raw entry.
C24_ExplicitEvidenceFourWays ==
    Built => \A q \in Pairs :
                (/\ Candidate(entries, title_cos, params, q[1], q[2])
                 /\ \/ KeyInReferences(q[1], q[2]) \/ KeyInRawEntry(q[1], q[2])
                    \/ DoiInReferences(q[1], q[2]) \/ DoiInRawEntry(q[1], q[2]))
                    => PairScore(q[1], q[2]) = 1000000

\* the occurrences the builder looks for: the key in a non-empty
\* references_raw, a normalised DOI or URL registered for the target's key in
\* references_raw, the normalised DOI in the normalised raw entry
RegisteredDoiInReferences(i, j) ==
    LET dm == DoiMap(entries, Len(entries))
    IN  /\ entries[i].references_raw # <<>>
        /\ \E dk \in DOMAIN dm :
              IsSubstr(dk, entries[i].references_raw) /\ dm[dk] = entries[j].bibkey

NormalisedDoiInRawEntry(i, j) ==
    /\ entries[j].doi # <<>>
    /\ IsSubstr(normalize_text(entries[j].doi), normalize_text(entries[i].raw_entry))

\* C24 (amended): a candidate pair has the score 1.0 whenever the target's
\* key occurs in the source's non-empty references_raw, a normalised DOI or
\* URL that the map of identifiers assigns to the target's key occurs there,
\* or the target's normalised DOI occurs in the source's normalised raw
\* entry; with sim_threshold at most 1.0 the edge is then emitted, with weight
\* 1.0 unless a later pair with the same keys rewrote it.
C24_ExplicitEvidenceAsLookedFor ==
    Built => \A q \in Pairs :
                (/\ Candidate(entries, title_cos, params, q[1], q[2])
                 /\ \/ (entries[q[1]].references_raw # <<>> /\ KeyInReferences(q[1], q[2]))
                    \/ RegisteredDoiInReferences(q[1], q[2])
                    \/ NormalisedDoiInRawEntry(q[1], q[2]))
                    => /\ PairScore(q[1], q[2]) = 1000000
                       /\ params.sim_threshold <= 100 =>
                             /\ HasEdge(q[1], q[2])
                             /\ ~LaterWriter(q[1], q[2]) => EdgeWeight(q[1], q[2]) = 10000

\* C24 witness: a candidate pair whose only evidence is the target's DOI in
\* the source's raw entry, scored 1.0 although title and authors alone stay
\* below sim_threshold.
C24_Witness ==
    /\ Built
    /\ \E q \in Pairs :
          /\ Candidate(entries, title_cos, params, q[1], q[2])
          /\ NormalisedDoiInRawEntry(q[1], q[2])
          /\ ~KeyInReferences(q[1], q[2]) /\ ~RegisteredDoiInReferences(q[1], q[2])
          /\ Fused(q[1], q[2]) < params.sim_threshold * 10000
          /\ params.sim_threshold <= 100
          /\ PairScore(q[1], q[2]) = 1000000
          /\ ~LaterWriter(q[1], q[2])
          /\ HasEdge(q[1], q[2]) /\ EdgeWeight(q[1], q[2]) = 10000

\* Lists of four records in which a key may come twice on both sides of an
\* edge: the records of the pool that have a title and authors and no
\* references field
KeyedPool ==
    { r \in RecordPool : r.title # NoText /\ r.authors # <<>> /\ r.references_raw = <<>> }

MaxKeyedEntries == 4

KeyedInit ==
    /\ pc = "entries"
    /\ \E n \in 0..MaxKeyedEntries : entries \in [1..n -> KeyedPool]
    /\ title_cos \in [TitlePairs -> CosValues]
    /\ params \in ParamSets
    /\ G = Idle
    /\ content = Idle /\ parsed = Idle
    /\ graph = Idle /\ query = Idle /\ out = Idle

KeyedSpec == KeyedInit /\ [][BuildNext]_vars

NoExplicitAnywhere == \A q \in Pairs : NoExplicit(q[1], q[2])

\* C29: when no pair of records carries explicit evidence, for all records
\* i, j with distinct keys the edge i->j is in the graph if and only if the
\* edge j->i is, and both carry the same weight.
C29_SymmetricWithoutExplicit ==
    (Built /\ NoExplicitAnywhere) =>
        \A q \in Pairs :
            entries[q[1]].bibkey # entries[q[2]].bibkey =>
                /\ HasEdge(q[1], q[2]) <=> HasEdge(q[2], q[1])
                /\ HasEdge(q[1], q[2]) => EdgeWeight(q[1], q[2]) = EdgeWeight(q[2], q[1])

\* what holds: the graph is symmetric when in addition no two records share
\* a key
UniqueKeys == \A q \in Pairs : entries[q[1]].bibkey # entries[q[2]].bibkey

SymmetricWithUniqueKeys ==
    (Built /\ NoExplicitAnywhere /\ UniqueKeys) =>
        \A q \in Pairs :
            /\ HasEdge(q[1], q[2]) <=> HasEdge(q[2], q[1])
            /\ HasEdge(q[1], q[2]) => EdgeWeight(q[1], q[2]) = EdgeWeight(q[2], q[1])

\* two records with different keys joined in both directions by an edge
\* scored from title and authors
SymmetricEdgesSeen ==
    /\ Built /\ NoExplicitAnywhere /\ UniqueKeys
    /\ \E q \in Pairs :
          /\ HasEdge(q[1], q[2]) /\ HasEdge(q[2], q[1])
          /\ EdgeWeight(q[1], q[2]) = EdgeWeight(q[2], q[1])
          /\ EdgeWeight(q[1], q[2]) < 10000

\* explicit evidence in one direction only: an edge without its reverse
OneWayEdgeSeen ==
    /\ Built
    /\ \E q \in Pairs :
          /\ entries[q[1]].bibkey # entries[q[2]].bibkey
          /\ HasEdge(q[1], q[2]) /\ ~HasEdge(q[2], q[1])

(***************************************************************************)
(* mainReq2: top_autores_mas_citados over an adjacency map, given as the   *)
(* list of its entries (src, dst, w) in the order adj.items() and          *)
(* vecinos.items() yield them, weights in 1/10000                          *)
(***************************************************************************)
\* re.match(r"([A-Za-z...]+)", nodo): the leading run of letters, the node id
\* itself when it starts with no letter
extraer_autor_de_nodo(nodo) ==
    LET stops == { k \in 1..Len(nodo) : nodo[k] \notin Letters }
        k     == IF stops = {} THEN Len(nodo) ELSE FirstIn(stops) - 1
    IN  IF k = 0 THEN nodo ELSE SubSeq(nodo, 1, k)

\* d[key] = d.get(key, 0.0) + w on a dict kept as the list of its items
AddTo(d, key, w) ==
    IF \E k \in 1..Len(d) : d[k][1] = key
    THEN [k \in 1..Len(d) |-> IF d[k][1] = key THEN <<key, d[k][2] + w>> ELSE d[k]]
    ELSE Append(d, <<key, w>>)

\* the in-weights when the edges from a node to itself are counted too
RECURSIVE InWeightWithLoops(_, _)
InWeightWithLoops(adj, k) ==
    IF k = 0 THEN <<>>
    ELSE AddTo(InWeightWithLoops(adj, k - 1), adj[k][2], adj[k][3])

\* lines 148-154: in_weight
RECURSIVE InWeight(_, _)
InWeight(adj, k) ==
    IF k = 0 THEN <<>>
    ELSE IF adj[k][1] = adj[k][2] THEN InWeight(adj, k - 1)
    ELSE AddTo(InWeight(adj, k - 1), adj[k][2], adj[k][3])

\* lines 157-160: autor_weight
RECURSIVE AutorWeight(_, _)
AutorWeight(in_weight, k) ==
    IF k = 0 THEN <<>>
    ELSE AddTo(AutorWeight(in_weight, k - 1),
               extraer_autor_de_nodo(in_weight[k][1]), in_weight[k][2])

\* sorted(items, key=lambda x: x[1], reverse=True): stable, equal totals keep
\* their order
RECURSIVE SortedByTotalDesc(_, _)
SortedByTotalDesc(items, k) ==
    IF k = 0 THEN <<>>
    ELSE LET s   == SortedByTotalDesc(items, k - 1)
             x   == items[k]
             pos == Cardinality({ q \in 1..Len(s) : s[q][2] >= x[2] })
         IN  SubSeq(s, 1, pos) \o <<x>> \o SubSeq(s, pos + 1, Len(s))

TopLimit == 10

top_autores_mas_citados(adj, n) ==
    LET in_weight    == InWeight(adj, Len(adj))
        autor_weight == AutorWeight(in_weight, Len(in_weight))
        ordenado     == SortedByTotalDesc(autor_weight, Len(autor_weight))
    IN  SubSeq(ordenado, 1, Min2(Len(ordenado), Max2(1, Min2(TopLimit, n))))

\* node ids: two of one author and one without letters
AdjNodes == { <<"W", "1">>, <<"W", "2">>, <<"9">> }

AdjWeights == {5000, 10000}

MaxAdjEdges == 3

\* a dict of dicts holds every (src, dst) once and yields the entries of one
\* src in a row
IsAdjacency(adj) ==
    /\ \A a, b \in 1..Len(adj) : a # b => <<adj[a][1], adj[a][2]>> # <<adj[b][1], adj[b][2]>>
    /\ \A a, b, c \in 1..Len(adj) : (a < b /\ b < c /\ adj[a][1] = adj[c][1]) => adj[b][1] = adj[a][1]

SmallAdjacencies(n) ==
    { adj \in [1..n -> AdjNodes \X AdjNodes \X AdjWeights] : IsAdjacency(adj) }

\* one source citing eleven or twelve nodes of as many authors, itself
\* included when loop is set
ManyAuthors == << "A", "B", "C", "D", "E", "F", "G", "H", "I", "J", "K", "L", "M" >>

WideAdjacency(m, loop) ==
    LET src == <<ManyAuthors[1], "1">>
    IN  [k \in 1..m |->
            << src, <<ManyAuthors[IF loop THEN k ELSE k + 1], "1">>,
               IF k % 3 = 0 THEN 10000 ELSE 5000 >>]

TopInit ==
    /\ pc = "adj"
    /\ \/ \E n \in 0..MaxAdjEdges : graph \in SmallAdjacencies(n)
       \/ \E m \in 11..12, loop \in BOOLEAN : graph = WideAdjacency(m, loop)
    /\ query \in [n : {0, 2, 15}]
    /\ entries = Idle /\ title_cos = Idle /\ params = Idle /\ G = Idle
    /\ content = Idle /\ parsed = Idle /\ out = Idle

TopAutores ==
    /\ pc = "adj"
    /\ out' = top_autores_mas_citados(graph, query.n)
    /\ pc' = "top"
    /\ UNCHANGED <<entries, title_cos, params, G, content, parsed, graph, query>>

TopNext == TopAutores

TopSpec == TopInit /\ [][TopNext]_vars

(***************************************************************************)
(* Claims about top_autores_mas_citados                                    *)
(***************************************************************************)
TopDone == pc = "top"

\* the same map without the edges from a node to itself
WithoutSelfEdges(adj) == SelectSeq(adj, LAMBDA e : e[1] # e[2])

TopAutoresSumSeen ==
    /\ TopDone
    /\ \E k \in 1..Len(graph) : graph[k][1] = graph[k][2]
    /\ \E k \in 1..Len(out) : out[k][1] = <<"W">> /\ out[k][2] = 15000

(***************************************************************************)
(* Application: main, from the scraping decision to the last panel.  The   *)
(* files found on disk are in content, the number of the stage in query,   *)
(* and out records the stages started, their exit codes, the panels shown  *)
(* and the exception that ended main.                                      *)
(***************************************************************************)
\* the scripts main runs, in the order of lines 371-417
Stages == << "mainGrafos", "mainReq2", "mainReq3_4", "mainReq5" >>

\* return codes of a child process: success, failures, killed by a signal
ExitCodes == {0, 1, 2, -9}

NoException == [kind |-> "none", code |-> 0]

Raise(kind, code) == [kind |-> kind, code |-> code]

\* a run that reports success whatever the return code is
ReturnCodeIgnored(returncode) == [panel |-> "Completado", raised |-> NoException]

\* lines 287-291 and 311-314: what run_python_script does with the return
\* code
ReturnCodeCheck(returncode) ==
    IF returncode # 0
    THEN [panel |-> "Fallo", raised |-> Raise("SystemExit", returncode)]
    ELSE [panel |-> "Completado", raised |-> NoException]

PipelineInit ==
    /\ pc = "main"
    /\ content \in [bibtex : BOOLEAN, script : [1..Len(Stages) -> BOOLEAN]]
    /\ query = 0
    /\ out = [started |-> <<>>, codes |-> <<>>, panels |-> <<>>, raised |-> NoException]
    /\ entries = Idle /\ title_cos = Idle /\ params = Idle /\ G = Idle
    /\ parsed = Idle /\ graph = Idle

\* lines 345-350: scraping unless data/ holds valid BibTeX files; an
\* exception of ejecutar_scraping ends main
Scraping ==
    /\ pc = "main"
    /\ \/ /\ content.bibtex
          /\ out' = [out EXCEPT !.panels = Append(@, "Optimizacion")]
          /\ pc' = "unificar"
       \/ /\ ~content.bibtex
          /\ \/ /\ out' = [out EXCEPT !.panels = @ \o <<"Scraping", "Scraping">>]
                /\ pc' = "unificar"
             \/ /\ out' = [out EXCEPT !.panels = Append(@, "Scraping"),
                                      !.raised = Raise("Exception", 0)]
                /\ pc' = "end"
    /\ UNCHANGED <<entries, title_cos, params, G, content, parsed, graph, query>>

\* lines 353-366: unificar() and its summary, the exception raised again
Unificar ==
    /\ pc = "unificar"
    /\ \/ /\ out' = [out EXCEPT !.panels = Append(@, "Unificacion completada")]
          /\ query' = 1
          /\ pc' = "call"
       \/ /\ out' = [out EXCEPT !.panels = Append(@, "Unificacion fallo"),
                                !.raised = Raise("Exception", 0)]
          /\ query' = query
          /\ pc' = "end"
    /\ UNCHANGED <<entries, title_cos, params, G, content, parsed, graph>>

\* lines 267-309: FileNotFoundError without the script, else the panel and
\* the child process
StartScript ==
    /\ pc = "call"
    /\ IF content.script[query]
       THEN /\ out' = [out EXCEPT !.panels = Append(@, "Ejecutando"),
                                  !.started = Append(@, Stages[query])]
            /\ pc' = "wait"
       ELSE /\ out' = [out EXCEPT !.raised = Raise("FileNotFoundError", 0)]
            /\ pc' = "end"
    /\ UNCHANGED <<entries, title_cos, params, G, content, parsed, graph, query>>

\* lines 286-291 and 310-314: the child exits, run_python_script raises
\* SystemExit or returns to main, which goes on to the next call
ScriptExits ==
    /\ pc = "wait"
    /\ \E returncode \in ExitCodes :
          LET r == ReturnCodeCheck(returncode)
          IN  /\ out' = [out EXCEPT !.codes = Append(@, returncode),
                                    !.panels = Append(@, r.panel),
                                    !.raised = r.raised]
              /\ IF r.raised # NoException THEN pc' = "end" /\ query' = query
                 ELSE IF query < Len(Stages) THEN pc' = "call" /\ query' = query + 1
                 ELSE pc' = "panel" /\ query' = query
    /\ UNCHANGED <<entries, title_cos, params, G, content, parsed, graph>>

\* line 419
PipelineCompletado ==
    /\ pc = "panel"
    /\ out' = [out EXCEPT !.panels = Append(@, "Pipeline completado")]
    /\ pc' = "end"
    /\ UNCHANGED <<entries, title_cos, params, G, content, parsed, graph, query>>

PipelineNext == Scraping \/ Unificar \/ StartScript \/ ScriptExits \/ PipelineCompletado

PipelineSpec == PipelineInit /\ [][PipelineNext]_vars

(***************************************************************************)
(* Claims about the order of the stages                                    *)
(***************************************************************************)
Shown(panel) == \E k \in 1..Len(out.panels) : out.panels[k] = panel

\* C30: the stages start in the order graphs, Req2, Req3-4, Req5 and after
\* the unification; a stage starts only after every earlier stage exited with
\* code 0; a stage that exits with another code makes run_python_script
\* raise SystemExit with that code, after which no later stage starts and the
\* panel 'Pipeline completado' is never shown.
C30_StagesInOrder ==
    /\ Len(out.started) <= Len(Stages)
    /\ out.started = SubSeq(Stages, 1, Len(out.started))
    /\ out.started # <<>> => Shown("Unificacion completada")
    /\ Len(out.codes) <= Len(out.started)
    /\ Len(out.started) <= Len(out.codes) + 1
    /\ \A k \in 1..Len(out.started) : \A j \in 1..(k - 1) : out.codes[j] = 0
    /\ \A j \in 1..Len(out.codes) :
          out.codes[j] # 0 =>
              /\ out.raised = Raise("SystemExit", out.codes[j])
              /\ pc = "end"
              /\ Len(out.started) = j
              /\ ~Shown("Pipeline completado")
    /\ Shown("Pipeline completado") =>
          /\ out.started = Stages
          /\ \A j \in 1..Len(Stages) : out.codes[j] = 0

\* C30 witness: graphs and Req2 exited with 0, Req3-4 with 2: SystemExit(2),
\* Req5 never started.
C30_Witness ==
    /\ pc = "end"
    /\ out.started = SubSeq(Stages, 1, 3)
    /\ out.codes = <<0, 0, 2>>
    /\ out.raised = Raise("SystemExit", 2)
    /\ ~Shown("Pipeline completado")

\* the whole pipeline run
PipelineCompletadoSeen ==
    pc = "end" /\ Shown("Pipeline completado") /\ out.codes = <<0, 0, 0, 0>>

====
